---- MODULE Spec2Model ----
(***************************************************************************)
(* Model of the TradeAssist Alpaca client: RateLimitTracker,               *)
(* AlpacaTradingClient._make_request and the public calls built on it      *)
(* (src/alpaca_trading_client.py), and the MODE selection of               *)
(* src/alpaca_config.py.                                                   *)
(*                                                                         *)
(* Time is counted in clock ticks, TicksPerSec ticks to the second, so     *)
(* that time.time() has sub-second resolution and int() truncation in      *)
(* check_rate_limit is observable.                                         *)
(***************************************************************************)
EXTENDS Integers, Sequences, FiniteSets, TLC

\* ---------------------------------------------------------------- bounds
TicksPerSec == 2
MaxRequests == 2
TimeWindow == 2
MaxTime == 10
MaxRecorded == 4
MaxFails == 2
MaxCasedLen == 4
MaxActions == 2
MaxDate == 2
MaxTrades == 4
MaxManual == 1
MaxDaysBack == 1
NumThreads == 2
Iterations == 2

\* ------------------------------------------------ constants of the tests
DefaultMaxRetries == 3
BackoffCap == 32
StaleThresholdMarketHours == 5
StaleThresholdOffHours == 60

\* significant digits of a float (17 in Python) and of the decimal context
\* (28 in Python), scaled down so that every product stays below 2^31
FloatDigits == 3
DecimalDigits == 4

WindowTicks == TimeWindow * TicksPerSec

Min(a, b) == IF a < b THEN a ELSE b

RECURSIVE Pow2(_)
Pow2(n) == IF n = 0 THEN 1 ELSE 2 * Pow2(n - 1)

RECURSIVE SeqMin(_)
SeqMin(s) == IF Len(s) = 1 THEN s[1] ELSE Min(s[1], SeqMin(Tail(s)))

RECURSIVE SeqMax(_)
SeqMax(s) ==
  IF Len(s) = 1 THEN s[1]
  ELSE LET m == SeqMax(Tail(s)) IN IF s[1] > m THEN s[1] ELSE m

\* an event of a call's trace: what happened, and its argument
Ev(name, arg) == [ev |-> name, arg |-> arg]

\* the positions of the trace tr that hold an event named e
EvAt(tr, e) == { i \in 1..Len(tr) : tr[i].ev = e }

CountEv(tr, e) == Cardinality(EvAt(tr, e))

\* ------------------------------------------------------ RateLimitTracker
\* the list comprehension of check_rate_limit: keep now - req_time < window
Prune(reqs, t) == SelectSeq(reqs, LAMBDA r : t - r < WindowTicks)

WaitTimeNoMargin(pruned, t) ==
  (WindowTicks - (t - SeqMin(pruned))) \div TicksPerSec

WaitTimeNewest(pruned, t) ==
  ((WindowTicks - (t - SeqMax(pruned))) \div TicksPerSec) + 1

\* int(self.time_window - (now - oldest_request)) + 1, in whole seconds
WaitTime(pruned, t) ==
  ((WindowTicks - (t - SeqMin(pruned))) \div TicksPerSec) + 1

check_rate_limit(reqs, t) ==
  LET pruned == Prune(reqs, t) IN
  IF Len(pruned) < MaxRequests
  THEN [requests |-> pruned, can |-> TRUE, wait |-> 0]
  ELSE [requests |-> pruned, can |-> FALSE, wait |-> WaitTime(pruned, t)]

record_request(reqs, t) == Append(reqs, t)

\* ---------------------------------------------------- brokerage responses
None == "None"

SupportedMethods == {"GET", "POST", "PUT", "DELETE"}
Methods == SupportedMethods \cup {"PATCH"}

\* what the brokerage (or the network) answers to one HTTP attempt
OkResponses ==
  { [kind |-> "http", status |-> 200, message |-> "", json |-> j] : j \in BOOLEAN }

FailResponses ==
  { [kind |-> "http", status |-> 400, message |-> "invalid request", json |-> TRUE],
    [kind |-> "http", status |-> 404, message |-> "position does not exist", json |-> TRUE],
    [kind |-> "http", status |-> 404, message |-> "symbol not found", json |-> TRUE],
    [kind |-> "http", status |-> 500, message |-> "Internal Server Error", json |-> TRUE],
    [kind |-> "http", status |-> 503, message |-> "Service Unavailable", json |-> FALSE],
    [kind |-> "neterr", status |-> 0, message |-> "Connection failed", json |-> FALSE],
    [kind |-> "neterr", status |-> 0, message |-> "Read timed out", json |-> FALSE] }

\* the brokerage fails the first `fails` attempts of a request with failResp
\* and answers okResp from then on; attempts are numbered from 0
ServerResponse(fails, failResp, okResp, attempt) ==
  IF attempt < fails THEN failResp ELSE okResp

Retryable(resp) ==
  resp.kind = "neterr" \/ (resp.kind = "http" /\ resp.status >= 500)

\* ----------------------------------------------------- _make_request
ApiErrorMsgNoStatus(status, message) == <<"Alpaca API error", 0, message>>

\* f"Alpaca API error ({response.status_code}): {error_data.get('message', ...)}"
ApiErrorMsg(status, message) == <<"Alpaca API error", status, message>>

HandleResponseLenient(method, resp) ==
  IF method \notin SupportedMethods
  THEN [exc |-> "ValueError", msg |-> <<"Unsupported HTTP method", 0, method>>,
        value |-> None, https |-> 0]
  ELSE IF resp.kind = "neterr"
  THEN [exc |-> "ConnectionError", msg |-> <<"Request failed", 0, resp.message>>,
        value |-> None, https |-> 1]
  ELSE IF resp.status < 500
  THEN [exc |-> "none", msg |-> <<"", 0, "">>,
        value |-> IF resp.json THEN "json" ELSE "text", https |-> 1]
  ELSE [exc |-> "RuntimeError", msg |-> ApiErrorMsg(resp.status, resp.message),
        value |-> None, https |-> 1]

\* the try block: dispatch on the method, then handle the response
HandleResponse(method, resp) ==
  IF method \notin SupportedMethods
  THEN [exc |-> "ValueError", msg |-> <<"Unsupported HTTP method", 0, method>>,
        value |-> None, https |-> 0]
  ELSE IF resp.kind = "neterr"
  THEN [exc |-> "ConnectionError", msg |-> <<"Request failed", 0, resp.message>>,
        value |-> None, https |-> 1]
  ELSE IF resp.status < 400
  THEN [exc |-> "none", msg |-> <<"", 0, "">>,
        value |-> IF resp.json THEN "json" ELSE "text", https |-> 1]
  ELSE [exc |-> "RuntimeError", msg |-> ApiErrorMsg(resp.status, resp.message),
        value |-> None, https |-> 1]

SleepArgNone(chk) == 0

\* the argument of time.sleep in the rate-limit branch; 0 when not blocked
SleepArg(chk) == IF ~chk.can THEN chk.wait ELSE 0

\* ------------------------------------------------------------ numbers
\* Prices, quantities and amounts are decimal numbers m * 10^(-e), kept in
\* canonical form (m is no multiple of 10, zero is 0 * 10^0), so that equal
\* numbers are equal records.  A Python float is modelled as a decimal
\* number of FloatDigits significant digits (17 in repr(float)), the
\* decimal context rounds every result to DecimalDigits significant digits
\* (28 in Python); both round half to even.
RECURSIVE Pow10(_)
Pow10(n) == IF n <= 0 THEN 1 ELSE 10 * Pow10(n - 1)

Abs(x) == IF x < 0 THEN -x ELSE x

RECURSIVE NumDigits(_)
NumDigits(x) == IF x = 0 THEN 0 ELSE 1 + NumDigits(x \div 10)

RoundHalfEven(n, d) ==
  LET q == n \div d
      r == n % d
  IN IF 2 * r > d \/ (2 * r = d /\ q % 2 = 1) THEN q + 1 ELSE q

Dec(m, e) == [m |-> m, e |-> e]

RECURSIVE DecNorm(_, _)
DecNorm(m, e) ==
  IF m = 0 THEN Dec(0, 0)
  ELSE IF m % 10 = 0 THEN DecNorm(m \div 10, e - 1)
  ELSE Dec(m, e)

DecInt(n) == DecNorm(n, 0)

Zero == Dec(0, 0)

\* m * 10^(-e) rounded to prec significant digits
DecRound(m, e, prec) ==
  LET k == NumDigits(Abs(m)) - prec IN
  IF k <= 0 THEN DecNorm(m, e)
  ELSE LET q == RoundHalfEven(Abs(m), Pow10(k))
       IN DecNorm(IF m < 0 THEN -q ELSE q, e - k)

\* the decimal number of prec significant digits nearest to n / d (n >= 0, d > 0)
RatRound(n, d, prec) ==
  IF n = 0 THEN Zero
  ELSE LET k0 == prec - (NumDigits(n) - NumDigits(d))
           q0 == IF k0 >= 0 THEN (n * Pow10(k0)) \div d ELSE n \div (d * Pow10(-k0))
           k == IF q0 >= Pow10(prec) THEN k0 - 1 ELSE k0
           q == IF k >= 0 THEN RoundHalfEven(n * Pow10(k), d)
                ELSE RoundHalfEven(n, d * Pow10(-k))
       IN DecNorm(q, k)

DecNeg(a) == Dec(-a.m, a.e)

DecMul(a, b) == DecRound(a.m * b.m, a.e + b.e, DecimalDigits)

DecAdd(a, b) ==
  LET e == IF a.e > b.e THEN a.e ELSE b.e
  IN DecRound(a.m * Pow10(e - a.e) + b.m * Pow10(e - b.e), e, DecimalDigits)

DecSub(a, b) == DecAdd(a, DecNeg(b))

\* a / b in the decimal context (b # 0)
DecDiv(a, b) ==
  LET r == RatRound(Abs(a.m), Abs(b.m), DecimalDigits)
      neg == (a.m < 0) # (b.m < 0)
  IN DecNorm(IF neg THEN -r.m ELSE r.m, r.e + a.e - b.e)

DecLt(a, b) == DecSub(a, b).m < 0

DecLe(a, b) == DecSub(a, b).m <= 0

DecAbs(a) == Dec(Abs(a.m), a.e)

\* float(n) / float(d) of two positive integers
FloatDiv(n, d) == RatRound(n, d, FloatDigits)

\* 1.0 / x of a positive float x
FloatInv(x) ==
  LET r == RatRound(1, x.m, FloatDigits) IN DecNorm(r.m, r.e - x.e)

\* float(x) of a decimal x
ToFloat(x) == DecRound(x.m, x.e, FloatDigits)

\* -------------------------------------------------- corporate_actions.py
\* an Optional[int] and an Optional[Decimal]
NoInt == [set |-> FALSE, v |-> 0]
SomeInt(n) == [set |-> TRUE, v |-> n]
NoDec == [set |-> FALSE, v |-> Zero]
SomeDec(d) == [set |-> TRUE, v |-> d]
NoStr == [set |-> FALSE, value |-> <<>>]
SomeStr(s) == [set |-> TRUE, value |-> s]

\* truth value of an Optional[int] / Optional[Decimal] / Optional[str]
TruthyInt(x) == x.set /\ x.v # 0
TruthyDec(x) == x.set /\ x.v.m # 0
TruthyStr(x) == x.set /\ x.value # <<>>

SplitTypes == {"stock_split", "reverse_split"}
DividendTypes == {"cash_dividend", "special_dividend"}

DigitVal ==
  [c \in {"0", "1", "2", "3", "4", "5", "6", "7", "8", "9"} |->
     CASE c = "0" -> 0 [] c = "1" -> 1 [] c = "2" -> 2 [] c = "3" -> 3
       [] c = "4" -> 4 [] c = "5" -> 5 [] c = "6" -> 6 [] c = "7" -> 7
       [] c = "8" -> 8 [] c = "9" -> 9]

Contains(s, c) == \E i \in 1..Len(s) : s[i] = c

\* str.split(sep)
RECURSIVE split(_, _)
split(s, sep) ==
  IF ~Contains(s, sep) THEN <<s>>
  ELSE LET i == CHOOSE j \in 1..Len(s) : s[j] = sep /\ \A k \in 1..(j - 1) : s[k] # sep
       IN <<SubSeq(s, 1, i - 1)>> \o split(SubSeq(s, i + 1, Len(s)), sep)

\* int(p) succeeds; the ratio strings of the model hold no sign and no blank
IsInt(p) == p # <<>> /\ \A i \in 1..Len(p) : p[i] \in DOMAIN DigitVal

RECURSIVE int(_)
int(p) == IF p = <<>> THEN 0 ELSE 10 * int(SubSeq(p, 1, Len(p) - 1)) + DigitVal[p[Len(p)]]

\* the try block of _parse_split_ratio: split_to is assigned before
\* int(parts[1]) can raise ValueError, which is logged and swallowed
ParseParts(parts) ==
  IF Len(parts) # 2 \/ ~IsInt(parts[1]) THEN [to |-> NoInt, from |-> NoInt]
  ELSE IF ~IsInt(parts[2]) THEN [to |-> SomeInt(int(parts[1])), from |-> NoInt]
  ELSE [to |-> SomeInt(int(parts[1])), from |-> SomeInt(int(parts[2]))]

parse_split_ratio(ratio) ==
  IF Contains(ratio, ":") THEN ParseParts(split(ratio, ":"))
  ELSE IF Contains(ratio, "/") THEN ParseParts(split(ratio, "/"))
  ELSE [to |-> NoInt, from |-> NoInt]

\* CorporateAction(...) with __post_init__; split_from/split_to are given
\* by import_data only
CorporateAction(symbol, type, ex_date, ratio, from, to, amount) ==
  LET parsed == IF type \in SplitTypes /\ TruthyStr(ratio)
                     /\ ~(TruthyInt(from) /\ TruthyInt(to))
                THEN parse_split_ratio(ratio.value)
                ELSE [to |-> to, from |-> from]
  IN [symbol |-> symbol, action_type |-> type, ex_date |-> ex_date,
      split_ratio |-> ratio,
      split_from |-> IF parsed.from.set THEN parsed.from ELSE from,
      split_to |-> IF parsed.to.set THEN parsed.to ELSE to,
      dividend_amount |-> amount]

One == DecInt(1)

get_split_multiplier(a) ==
  IF ~(TruthyInt(a.split_from) /\ TruthyInt(a.split_to)) THEN One
  ELSE FloatDiv(a.split_to.v, a.split_from.v)

get_price_adjustment_factor_same(a) == get_split_multiplier(a)

get_price_adjustment_factor(a) ==
  LET multiplier == get_split_multiplier(a)
  IN IF multiplier.m # 0 THEN FloatInv(multiplier) ELSE One

is_effective_after_date(a, check_date) == check_date > a.ex_date

is_effective_on_date(a, check_date) == check_date >= a.ex_date

\* list.sort(key=ex_date) and sorted(..., key=ex_date): stable
RECURSIVE InsertByExDate(_, _)
InsertByExDate(sorted, a) ==
  IF sorted = <<>> THEN <<a>>
  ELSE IF a.ex_date < Head(sorted).ex_date THEN <<a>> \o sorted
  ELSE <<Head(sorted)>> \o InsertByExDate(Tail(sorted), a)

RECURSIVE SortByExDate(_)
SortByExDate(s) ==
  IF s = <<>> THEN <<>>
  ELSE InsertByExDate(SortByExDate(SubSeq(s, 1, Len(s) - 1)), s[Len(s)])

\* CorporateActionManager.add_corporate_action on the dict `acts`
add_corporate_action(acts, a) ==
  [acts EXCEPT ![a.symbol] = SortByExDate(Append(acts[a.symbol], a))]

calculate_stock_split_adjustment(a, current_quantity, current_cost_basis) ==
  LET multiplier == get_split_multiplier(a)
      price_factor == get_price_adjustment_factor(a)
      new_quantity == DecMul(current_quantity, multiplier)
      new_cost_basis == DecMul(current_cost_basis, price_factor)
  IN [exc |-> "none", action |-> a, adjustment_type |-> "split",
      original_quantity |-> current_quantity,
      original_cost_basis |-> current_cost_basis,
      original_total_cost |-> DecMul(current_quantity, current_cost_basis),
      adjusted_quantity |-> new_quantity,
      adjusted_cost_basis |-> new_cost_basis,
      adjusted_total_cost |-> DecMul(new_quantity, new_cost_basis),
      cash_adjustment |-> Zero]

calculate_dividend_adjustment(a, current_quantity) ==
  [exc |-> IF ~TruthyDec(a.dividend_amount) THEN "ValueError" ELSE "none",
   action |-> a, adjustment_type |-> "dividend",
   original_quantity |-> current_quantity,
   original_cost_basis |-> Zero, original_total_cost |-> Zero,
   adjusted_quantity |-> current_quantity,
   adjusted_cost_basis |-> Zero, adjusted_total_cost |-> Zero,
   cash_adjustment |-> DecMul(current_quantity, a.dividend_amount.v)]

NoPosition ==
  [exc |-> "none", original_quantity |-> Zero, original_cost_basis |-> Zero,
   adjusted_quantity |-> Zero, adjusted_cost_basis |-> Zero,
   total_dividends_received |-> Zero, adjustments |-> <<>>, actions_applied |-> 0]

\* the actions the list comprehension of apply_corporate_actions_to_position keeps
RelevantActions(acts, symbol, acquisition_date, as_of_date) ==
  SelectSeq(acts[symbol],
            LAMBDA a : a.ex_date >= acquisition_date /\ is_effective_on_date(a, as_of_date))

RECURSIVE ApplyLoop(_, _, _, _, _)

\* the loop goes on with the quantity and the cost basis of the split x
SplitStep(as, x, d, made) ==
  ApplyLoop(Tail(as), x.adjusted_quantity, x.adjusted_cost_basis, d, Append(made, x))

\* the loop goes on with the cash of the dividend x, or leaves with its exception
DividendStep(as, x, q, c, d, made) ==
  IF x.exc # "none" THEN [NoPosition EXCEPT !.exc = x.exc]
  ELSE ApplyLoop(Tail(as), q, c, DecAdd(d, x.cash_adjustment), Append(made, x))

\* the loop over sorted(relevant_actions): the working quantity q, the
\* working cost basis c, the dividends d and the adjustments made so far
ApplyLoop(as, q, c, d, made) ==
  IF as = <<>>
  THEN [NoPosition EXCEPT !.adjusted_quantity = q, !.adjusted_cost_basis = c,
          !.total_dividends_received = d, !.adjustments = made,
          !.actions_applied = Len(made)]
  ELSE IF Head(as).action_type \in SplitTypes
  THEN SplitStep(as, calculate_stock_split_adjustment(Head(as), q, c), d, made)
  ELSE IF Head(as).action_type \in DividendTypes
  THEN DividendStep(as, calculate_dividend_adjustment(Head(as), q), q, c, d, made)
  ELSE ApplyLoop(Tail(as), q, c, d, made)

\* the dictionary apply_corporate_actions_to_position returns
Adjusted(out, current_quantity, current_cost_basis) ==
  IF out.exc # "none" THEN out
  ELSE [out EXCEPT !.original_quantity = current_quantity,
                   !.original_cost_basis = current_cost_basis]

apply_corporate_actions_to_position(acts, symbol, acquisition_date, current_quantity, current_cost_basis, as_of_date) ==
  LET relevant == RelevantActions(acts, symbol, acquisition_date, as_of_date)
  IN Adjusted(IF relevant = <<>>
              THEN [NoPosition EXCEPT !.adjusted_quantity = current_quantity,
                                      !.adjusted_cost_basis = current_cost_basis]
              ELSE ApplyLoop(SortByExDate(relevant), current_quantity,
                             current_cost_basis, Zero, <<>>),
              current_quantity, current_cost_basis)

NoPnl ==
  [exc |-> "none", original_total_cost |-> Zero, adjusted_total_cost |-> Zero,
   current_market_value |-> Zero, capital_pnl |-> Zero, dividends_received |-> Zero,
   total_pnl |-> Zero, total_return_pct |-> Zero, capital_return_pct |-> Zero,
   dividend_yield_pct |-> Zero, adjusted_quantity |-> Zero]

Hundred == DecInt(100)

\* (x / base) * 100 if base > 0 else 0
Percent(x, base) == IF base.m > 0 THEN DecMul(DecDiv(x, base), Hundred) ELSE Zero

TotalPnlCapitalOnly(capital_pnl, dividends_received) == capital_pnl

\* total_pnl = capital_pnl + dividends received
TotalPnl(capital_pnl, dividends_received) == DecAdd(capital_pnl, dividends_received)

\* get_adjusted_pnl, given the position apply_corporate_actions_to_position
\* returned; every figure is returned as float(...)
get_adjusted_pnl(adjusted_position, acquisition_quantity, acquisition_cost_per_share, current_market_price) ==
  LET original_total_cost == DecMul(acquisition_quantity, acquisition_cost_per_share)
      adjusted_total_cost == DecMul(adjusted_position.adjusted_quantity,
                                    adjusted_position.adjusted_cost_basis)
      current_market_value == DecMul(adjusted_position.adjusted_quantity,
                                     current_market_price)
      capital_pnl == DecSub(current_market_value, adjusted_total_cost)
      dividends == adjusted_position.total_dividends_received
      total_pnl == TotalPnl(capital_pnl, dividends)
  IN IF adjusted_position.exc # "none" THEN [NoPnl EXCEPT !.exc = adjusted_position.exc]
     ELSE [exc |-> "none",
           original_total_cost |-> ToFloat(original_total_cost),
           adjusted_total_cost |-> ToFloat(adjusted_total_cost),
           current_market_value |-> ToFloat(current_market_value),
           capital_pnl |-> ToFloat(capital_pnl),
           dividends_received |-> ToFloat(dividends),
           total_pnl |-> ToFloat(total_pnl),
           total_return_pct |-> ToFloat(Percent(total_pnl, original_total_cost)),
           capital_return_pct |-> ToFloat(Percent(capital_pnl, adjusted_total_cost)),
           dividend_yield_pct |-> ToFloat(Percent(dividends, original_total_cost)),
           adjusted_quantity |-> adjusted_position.adjusted_quantity]

\* ---- the inputs of the ledger
Symbols == {"AAPL", "MSFT"}

Dates == 1..MaxDate

NoActions == [sym \in Symbols |-> <<>>]

\* a split ratio string, character by character
WellFormedRatios ==
  { <<"4", ":", "1">>, <<"1", ":", "3">>, <<"3", "/", "2">> }

MalformedRatios ==
  { <<"4", ":", "x">>, <<"4", "1">>, <<"0", ":", "1">> }

SplitInputs ==
  { [type |-> "stock_split", ratio |-> r] :
      r \in (WellFormedRatios \ {<<"1", ":", "3">>}) \cup MalformedRatios }
  \cup { [type |-> "reverse_split", ratio |-> <<"1", ":", "3">>] }

DividendAmounts == { Dec(2, 1) }

ActionInputs ==
  { [symbol |-> "AAPL", type |-> i.type, ratio |-> SomeStr(i.ratio), amount |-> NoDec] :
      i \in SplitInputs }
  \cup { [symbol |-> "AAPL", type |-> t, ratio |-> NoStr, amount |-> SomeDec(d)] :
           t \in DividendTypes, d \in DividendAmounts }
  \cup { [symbol |-> "AAPL", type |-> "cash_dividend", ratio |-> NoStr, amount |-> NoDec],
         [symbol |-> "AAPL", type |-> "merger", ratio |-> NoStr, amount |-> NoDec],
         [symbol |-> "MSFT", type |-> "stock_split",
          ratio |-> SomeStr(<<"4", ":", "1">>), amount |-> NoDec] }

\* a position: symbol, quantity and cost basis per share
PositionInputs ==
  { [symbol |-> "AAPL", q |-> DecInt(10), c |-> DecInt(40)],
    [symbol |-> "AAPL", q |-> DecInt(3), c |-> Dec(25, 1)],
    [symbol |-> "MSFT", q |-> DecInt(10), c |-> DecInt(40)] }

\* a position and the market price of its symbol
PricedInputs ==
  { [symbol |-> "AAPL", q |-> DecInt(10), c |-> DecInt(40), price |-> DecInt(18)],
    [symbol |-> "AAPL", q |-> DecInt(10), c |-> Zero, price |-> DecInt(18)] }

\* acquisition date and as-of date of a query: acquired on or before as-of
DateInputs == { x \in [acq : Dates, asof : Dates] : x.acq <= x.asof }

\* ------------------------------------------ enhanced_position_tracker.py
\* first_acquisition = None
NoDate == 0

\* one entry of positions_history[symbol]; the quantity is signed
Trade(date, type, quantity, price, order_id) ==
  [date |-> date, type |-> type, quantity |-> quantity, price |-> price,
   order_id |-> order_id]

NoHistory == [sym \in Symbols |-> <<>>]

\* self.pnl_cache = {}: no symbol has an entry
NoCache == [sym \in Symbols |-> None]

clear_pnl_cache_keep(cache, symbol) == cache

\* if symbol in self.pnl_cache: del self.pnl_cache[symbol]
clear_pnl_cache(cache, symbol) == [cache EXCEPT ![symbol] = None]

record_trade_replace(hist, symbol, quantity, price, trade_type, trade_date, order_id) ==
  [hist EXCEPT ![symbol] = <<Trade(trade_date, trade_type, quantity, price, order_id)>>]

\* record_trade without its save: the record is appended to the symbol's list
record_trade(hist, symbol, quantity, price, trade_type, trade_date, order_id) ==
  [hist EXCEPT ![symbol] = Append(@, Trade(trade_date, trade_type, quantity, price, order_id))]

\* CorporateAction.to_dict and the constructor call of import_data
to_dict(a) ==
  [a EXCEPT !.dividend_amount = IF TruthyDec(a.dividend_amount) THEN a.dividend_amount ELSE NoDec]

from_dict(d) ==
  CorporateAction(d.symbol, d.action_type, d.ex_date, d.split_ratio, d.split_from,
                  d.split_to, IF TruthyDec(d.dividend_amount) THEN d.dividend_amount ELSE NoDec)

export_data(acts) ==
  [sym \in Symbols |-> [i \in 1..Len(acts[sym]) |-> to_dict(acts[sym][i])]]

import_data(data) ==
  [sym \in Symbols |-> [i \in 1..Len(data[sym]) |-> from_dict(data[sym][i])]]

\* the state file: absent, a saved document, or a file the failed write left
NoFile ==
  [state |-> "absent", history |-> NoHistory, pnl_cache |-> NoCache,
   actions |-> NoActions]

\* what one write can do: succeed, fail in open() (the file is left as it
\* was), or fail in json.dump after open() has truncated the file
DiskStates == {"ok", "readonly", "full"}

\* save_data: every exception is logged and swallowed
save_data(hist, cache, acts, old, dsk) ==
  IF dsk = "ok"
  THEN [state |-> "saved", history |-> hist, pnl_cache |-> cache,
        actions |-> export_data(acts)]
  ELSE IF dsk = "readonly" THEN old
  ELSE [NoFile EXCEPT !.state = "corrupt"]

\* load_data: nothing to load, or the document, or (json.load raises) the
\* reset of the except branch
load_data(f) ==
  IF f.state = "saved"
  THEN [history |-> f.history, pnl_cache |-> f.pnl_cache,
        actions |-> import_data(f.actions)]
  ELSE [history |-> NoHistory, pnl_cache |-> NoCache, actions |-> NoActions]

\* the loop of get_current_position over the symbol's trades
RECURSIVE FoldTrades(_, _, _, _)
FoldTrades(trades, total_quantity, total_cost, first_acquisition) ==
  IF trades = <<>>
  THEN [quantity |-> total_quantity, cost |-> total_cost, first |-> first_acquisition]
  ELSE LET trade == Head(trades)
           quantity == DecInt(trade.quantity)
       IN IF trade.type = "buy"
          THEN FoldTrades(Tail(trades), DecAdd(total_quantity, quantity),
                          DecAdd(total_cost, DecMul(quantity, trade.price)),
                          IF first_acquisition = NoDate THEN trade.date
                          ELSE first_acquisition)
          ELSE IF trade.type = "sell" /\ total_quantity.m > 0
          THEN LET cost_per_share == DecDiv(total_cost, total_quantity)
                   sold_cost == DecMul(DecAbs(quantity), cost_per_share)
               IN FoldTrades(Tail(trades), DecAdd(total_quantity, quantity),
                             DecSub(total_cost, sold_cost), first_acquisition)
          ELSE FoldTrades(Tail(trades), total_quantity, total_cost, first_acquisition)

\* the zero-position sentinel
ZeroPosition(trades_count) ==
  [exc |-> "none", quantity |-> Zero, cost_basis |-> Zero, total_cost |-> Zero,
   trades_count |-> trades_count, corporate_actions_applied |-> 0,
   first_acquisition |-> NoDate]

\* the return statement of get_current_position, after the corporate
\* actions were applied to the folded position
AdjustedPosition(trades_count, first_acquisition, adjusted) ==
  IF adjusted.exc # "none" THEN [ZeroPosition(0) EXCEPT !.exc = adjusted.exc]
  ELSE [exc |-> "none", quantity |-> ToFloat(adjusted.adjusted_quantity),
        cost_basis |-> ToFloat(adjusted.adjusted_cost_basis),
        total_cost |-> ToFloat(DecMul(adjusted.adjusted_quantity,
                                      adjusted.adjusted_cost_basis)),
        trades_count |-> trades_count,
        corporate_actions_applied |-> adjusted.actions_applied,
        first_acquisition |-> first_acquisition]

\* get_current_position from the average cost basis on: the corporate
\* actions are applied when there is an acquisition date
AveragedPosition(trades_count, f, average_cost_basis, acts, symbol, day) ==
  IF f.first = NoDate
  THEN [exc |-> "none", quantity |-> ToFloat(f.quantity),
        cost_basis |-> ToFloat(average_cost_basis),
        total_cost |-> ToFloat(f.cost), trades_count |-> trades_count,
        corporate_actions_applied |-> 0, first_acquisition |-> NoDate]
  ELSE AdjustedPosition(trades_count, f.first,
         apply_corporate_actions_to_position(acts, symbol, f.first, f.quantity,
                                             average_cost_basis, day))

\* get_current_position from the end of its loop on
FoldedPosition(trades_count, f, acts, symbol, day) ==
  IF f.quantity.m <= 0 THEN ZeroPosition(trades_count)
  ELSE AveragedPosition(trades_count, f, DecDiv(f.cost, f.quantity), acts, symbol, day)

\* get_current_position(symbol) on the day `day`
get_current_position(hist, acts, symbol, day) ==
  IF hist[symbol] = <<>> THEN ZeroPosition(0)
  ELSE FoldedPosition(Len(hist[symbol]), FoldTrades(hist[symbol], Zero, Zero, NoDate),
                      acts, symbol, day)

\* the date of the first buy of a list of trades
RECURSIVE FirstBuy(_)
FirstBuy(trades) ==
  IF trades = <<>> THEN NoDate
  ELSE IF Head(trades).type = "buy" THEN Head(trades).date
  ELSE FirstBuy(Tail(trades))

NoPositionPnl ==
  [exc |-> "none", kind |-> "none", position |-> ZeroPosition(0),
   current_price |-> Zero, current_value |-> Zero, total_cost |-> Zero,
   capital_pnl |-> Zero, dividends_received |-> Zero, total_pnl |-> Zero,
   total_return_pct |-> Zero, basic_value |-> Zero, basic_pnl |-> Zero,
   adjusted_quantity |-> Zero]

\* the result of get_position_pnl, from the analysis of get_adjusted_pnl
SummaryPnl(position, current_price, ca) ==
  IF ca.exc # "none" THEN [NoPositionPnl EXCEPT !.exc = ca.exc]
  ELSE [NoPositionPnl EXCEPT !.kind = "summary", !.position = position,
          !.current_price = ToFloat(current_price),
          !.current_value = ca.current_market_value,
          !.total_cost = ca.original_total_cost,
          !.capital_pnl = ca.capital_pnl,
          !.dividends_received = ca.dividends_received,
          !.total_pnl = ca.total_pnl,
          !.total_return_pct = ca.total_return_pct,
          !.adjusted_quantity = ca.adjusted_quantity]

\* the fallback of get_position_pnl for a position without acquisition date
BasicPnl(position, current_price, current_value) ==
  [NoPositionPnl EXCEPT !.kind = "basic", !.position = position,
     !.current_price = ToFloat(current_price),
     !.basic_value = ToFloat(current_value),
     !.basic_pnl = ToFloat(DecSub(current_value, position.total_cost))]

\* get_position_pnl from the position on; get_adjusted_pnl is given the
\* quantity and the cost basis of the position, which are adjusted already
PositionPnl(position, first_acquisition, acts, symbol, current_price, day) ==
  IF position.exc # "none" THEN [NoPositionPnl EXCEPT !.exc = position.exc]
  ELSE IF position.quantity = Zero THEN [NoPositionPnl EXCEPT !.kind = "no_position"]
  ELSE IF current_price.m <= 0 THEN [NoPositionPnl EXCEPT !.kind = "error"]
  ELSE IF first_acquisition = NoDate
  THEN BasicPnl(position, current_price, DecMul(position.quantity, current_price))
  ELSE SummaryPnl(position, current_price,
         get_adjusted_pnl(
           apply_corporate_actions_to_position(acts, symbol, first_acquisition,
             position.quantity, position.cost_basis, day),
           position.quantity, position.cost_basis, current_price))

\* get_position_pnl(symbol, current_price); `quote` is the price the quote
\* request gives when current_price is None, 0 when that request fails
get_position_pnl(hist, acts, symbol, given, quote, day) ==
  PositionPnl(get_current_position(hist, acts, symbol, day), FirstBuy(hist[symbol]),
              acts, symbol, IF given.set THEN given.v ELSE quote, day)

NoSummary ==
  [error |-> FALSE, total_positions |-> 0, total_market_value |-> Zero,
   total_cost_basis |-> Zero, total_pnl |-> Zero, total_dividends |-> Zero,
   positions |-> <<>>]

\* a += b on floats
FloatAdd(a, b) == ToFloat(DecAdd(a, b))

\* portfolio_summary after one position was added to it
Aggregate(acc, symbol, pnl_analysis) ==
  [acc EXCEPT
     !.total_positions = @ + 1,
     !.total_market_value = FloatAdd(@, pnl_analysis.current_value),
     !.total_cost_basis = FloatAdd(@, pnl_analysis.total_cost),
     !.total_pnl = FloatAdd(@, pnl_analysis.total_pnl),
     !.total_dividends = FloatAdd(@, pnl_analysis.dividends_received),
     !.positions = Append(@, symbol)]

RECURSIVE SummaryLoop(_, _, _, _, _, _)

\* one round of the loop, from the analysis of the position on; an
\* exception of get_position_pnl leaves the loop for the except branch
SummaryStep(syms, hist, acts, quotes, day, acc, pnl_analysis) ==
  IF pnl_analysis.exc # "none" THEN [NoSummary EXCEPT !.error = TRUE]
  ELSE IF pnl_analysis.kind \in {"error", "no_position"}
  THEN SummaryLoop(Tail(syms), hist, acts, quotes, day, acc)
  ELSE SummaryLoop(Tail(syms), hist, acts, quotes, day,
                   Aggregate(acc, Head(syms), pnl_analysis))

\* the loop of get_portfolio_summary over the broker's positions
SummaryLoop(syms, hist, acts, quotes, day, acc) ==
  IF syms = <<>> THEN acc
  ELSE SummaryStep(syms, hist, acts, quotes, day, acc,
         get_position_pnl(hist, acts, Head(syms), NoDec, quotes[Head(syms)], day))

\* get_portfolio_summary(); `up` is whether get_positions() succeeds
get_portfolio_summary(up, positions, hist, acts, quotes, day) ==
  IF up THEN SummaryLoop(positions, hist, acts, quotes, day, NoSummary)
  ELSE [NoSummary EXCEPT !.error = TRUE]

\* the order was never recorded
trade_exists_never(existing_trades, order_id) == FALSE

\* any(trade.get('order_id') == order_id for trade in existing_trades)
trade_exists(existing_trades, order_id) ==
  \E i \in 1..Len(existing_trades) : existing_trades[i].order_id = order_id

\* all([symbol, filled_qty, filled_avg_price, filled_at])
AllFilled(order) ==
  /\ order.symbol # "" /\ order.filled_qty # <<>>
  /\ TruthyDec(order.filled_avg_price) /\ order.filled_at # NoDate

\* the loop of sync_with_alpaca_trades over the orders: the trade log it
\* leaves, the number of trades it recorded and of orders it found recorded
RECURSIVE SyncLoop(_, _, _, _)
SyncLoop(orders, hist, synced_count, known) ==
  IF orders = <<>> THEN [history |-> hist, synced |-> synced_count, known |-> known]
  ELSE LET order == Head(orders) IN
       IF ~AllFilled(order) \/ ~IsInt(order.filled_qty)
       THEN SyncLoop(Tail(orders), hist, synced_count, known)
       ELSE IF trade_exists(hist[order.symbol], order.id)
       THEN SyncLoop(Tail(orders), hist, synced_count, known + 1)
       ELSE LET quantity == IF order.side = "sell" THEN -int(order.filled_qty)
                            ELSE int(order.filled_qty)
            IN SyncLoop(Tail(orders),
                        record_trade(hist, order.symbol, quantity,
                                     order.filled_avg_price.v, order.side,
                                     order.filled_at, order.id),
                        synced_count + 1, known)

\* ---- the broker, as the tracker sees it
Order(id, symbol, side, filled_qty, filled_avg_price, filled_at) ==
  [id |-> id, symbol |-> symbol, side |-> side, filled_qty |-> filled_qty,
   filled_avg_price |-> filled_avg_price, filled_at |-> filled_at]

\* the filled orders of the account: a fractional fill and a fill without
\* an average price among them
BrokerFills ==
  << Order("o1", "AAPL", "buy", <<"1", "0">>, SomeDec(DecInt(40)), 1),
     Order("o2", "MSFT", "buy", <<"5">>, SomeDec(DecInt(20)), 1),
     Order("o3", "AAPL", "buy", <<"1", ".", "5">>, SomeDec(DecInt(40)), 1),
     Order("o4", "AAPL", "sell", <<"4">>, SomeDec(DecInt(50)), 2),
     Order("o5", "AAPL", "buy", <<"3">>, NoDec, 2) >>

\* get_orders(status='filled', after, until)
get_orders(after, until) ==
  SelectSeq(BrokerFills, LAMBDA o : after <= o.filled_at /\ o.filled_at <= until)

\* get_positions(): the symbols the broker holds
BrokerPositions == <<"AAPL", "MSFT">>

\* the quotes of one summary: a price per symbol, 0 where the request fails
QuoteInputs == [Symbols -> {Zero, DecInt(18)}]

\* trades to record by hand
Buy(symbol, quantity, price) == [symbol |-> symbol, type |-> "buy", quantity |-> quantity, price |-> price]

Sell(symbol, quantity, price) == [symbol |-> symbol, type |-> "sell", quantity |-> -quantity, price |-> price]

\* ------------------------------------------------------- alpaca_config.py
Unset == [set |-> FALSE, value |-> <<>>]
PAPER == "paper"
LIVE == "live"

Whitespace == {" ", "\t", "\n"}

LowerToUpper ==
  [c \in {"l", "i", "v", "e", "p", "a", "r", "x"} |->
     CASE c = "l" -> "L" [] c = "i" -> "I" [] c = "v" -> "V" [] c = "e" -> "E"
       [] c = "p" -> "P" [] c = "a" -> "A" [] c = "r" -> "R" [] c = "x" -> "X"]

\* str.upper(), one character
UpperChar(c) == IF c \in DOMAIN LowerToUpper THEN LowerToUpper[c] ELSE c

upper(str) == [i \in 1..Len(str) |-> UpperChar(str[i])]

RECURSIVE lstrip(_)
lstrip(str) ==
  IF str # <<>> /\ str[1] \in Whitespace THEN lstrip(Tail(str)) ELSE str

RECURSIVE rstrip(_)
rstrip(str) ==
  IF str # <<>> /\ str[Len(str)] \in Whitespace
  THEN rstrip(SubSeq(str, 1, Len(str) - 1)) ELSE str

strip(str) == lstrip(rstrip(str))

\* os.getenv(name, default)
getenv(var, default) == IF var.set THEN var.value ELSE default

get_effective_mode_nostrip(var) ==
  LET mode_env == upper(getenv(var, <<"P", "A", "P", "E", "R">>)) IN
  IF mode_env = <<"P", "A", "P", "E", "R">> THEN PAPER
  ELSE IF mode_env = <<"L", "I", "V", "E">> THEN LIVE
  ELSE PAPER

get_effective_mode(var) ==
  LET mode_env == upper(strip(getenv(var, <<"P", "A", "P", "E", "R">>))) IN
  IF mode_env = <<"P", "A", "P", "E", "R">> THEN PAPER
  ELSE IF mode_env = <<"L", "I", "V", "E">> THEN LIVE
  ELSE PAPER

\* self.base_urls[mode]["trading"]
TradingUrl(mode) ==
  IF mode = PAPER THEN "https://paper-api.alpaca.markets"
  ELSE "https://api.alpaca.markets"

\* the values the MODE variable is given: a word, in any mix of cases, with
\* whitespace around it
ModeWords ==
  { <<>>, <<"l", "i", "v", "e">>, <<"l", "i", "v">>, <<"l", "i", "v", "e", "x">>,
    <<"p", "a", "p", "e", "r">>, <<"l", " ", "i", "v", "e">> }

Pads == { <<>>, <<" ">>, <<"\t">>, <<" ", "\n">> }

Cased(w, up) == [i \in 1..Len(w) |-> IF i \in up THEN UpperChar(w[i]) ELSE w[i]]

EnvValues ==
  {Unset} \cup
  { [set |-> TRUE, value |-> l \o Cased(w, up) \o r] :
      l \in Pads, r \in Pads,
      w \in ModeWords, up \in SUBSET (1..MaxCasedLen) }

VARIABLES
  now,        \* time.time(), in ticks
  requests,   \* rate_tracker.requests
  recorded,   \* every timestamp record_request has appended so far
  result,     \* what the last call did and returned
  env,        \* os.environ["MODE"]
  effMode,    \* the last value get_effective_mode returned
  client,     \* what the last get_client did and returned
  actions,    \* CorporateActionManager.actions: symbol -> list of actions
  adj,        \* what the last call on the ledger did and returned
  history,    \* PositionTracker.positions_history: symbol -> list of trades
  pnl_cache,  \* PositionTracker.pnl_cache: symbol -> entry or None
  file,       \* the tracker's data file
  today,      \* datetime.now(), in days
  tq,         \* what the last call on the tracker did and returned
  threads,    \* each thread sharing the RateLimitTracker: where it is
  allowed,    \* how many checks told a thread to go on
  bot,        \* AdvancedTradingBot: its counter and its last execute_trade
  sched       \* TradingScheduler: its fields and its last call

cvars == <<now, requests, recorded, result>>
mvars == <<env, effMode, client>>
lvars == <<actions, adj>>
tvars == <<history, pnl_cache, file, today, tq>>
kvars == <<threads, allowed>>
bvars == <<bot, sched>>
ovars ==
  <<actions, adj, history, pnl_cache, file, today, tq, threads, allowed, bot, sched>>
vars == <<now, requests, recorded, result, env, effMode, client, actions, adj,
          history, pnl_cache, file, today, tq, threads, allowed, bot, sched>>

NoResponse == [kind |-> "none", status |-> 0, message |-> "", json |-> FALSE]

NoCall ==
  [op |-> "none", method |-> "GET", exc |-> "none", msg |-> <<"", 0, "">>,
   value |-> None, trace |-> <<>>, t0 |-> 0, before |-> <<>>,
   blocked |-> FALSE, wait |-> 0, fails |-> 0, resp0 |-> NoResponse,
   qty |-> None, notional |-> None, sent |-> <<>>, vf |-> "unset", age |-> 0,
   marketOpen |-> FALSE, freshness |-> None]

NoClient ==
  [built |-> "none", explicit |-> None, mode |-> None, url |-> None,
   fetches |-> 0, resp |-> NoResponse, msg |-> <<"", 0, "">>,
   key |-> None, header |-> None, switched |-> "none"]

\* one call of _make_request: rate-limit check, sleep when blocked, record,
\* one HTTP attempt, response handling.  `extra` is the time the sleep
\* overshoots; `more` holds the caller's fields of the result.  The value is
\* the state the call leaves: the clock, the tracker's list and the outcome.
make_request(op, method, fails, failResp, okResp, extra, more) ==
  LET chk == check_rate_limit(requests, now)
      sl == SleepArg(chk)
      tRec == IF sl > 0 THEN now + sl * TicksPerSec + extra ELSE now
      resp == ServerResponse(fails, failResp, okResp, 0)
      out == HandleResponse(method, resp)
      tr == <<Ev("check", 0)>> \o (IF sl > 0 THEN <<Ev("sleep", sl)>> ELSE <<>>)
              \o <<Ev("record", tRec)>>
              \o (IF out.https > 0 THEN <<Ev("http", 0)>> ELSE <<>>)
  IN [now |-> tRec,
      requests |-> record_request(chk.requests, tRec),
      result |-> [more EXCEPT !.op = op, !.method = method, !.exc = out.exc,
                    !.msg = out.msg, !.value = out.value, !.trace = tr,
                    !.t0 = now, !.before = requests,
                    !.blocked = ~chk.can, !.wait = chk.wait,
                    !.fails = fails, !.resp0 = resp]]

\* the call returns (or raises) and leaves the state `after`
returns(after) ==
  /\ after.now <= MaxTime
  /\ Len(recorded) < MaxRecorded
  /\ now' = after.now
  /\ requests' = after.requests
  /\ recorded' = Append(recorded, after.now)
  /\ result' = after.result
  /\ UNCHANGED mvars
  /\ UNCHANGED ovars

\* a call that raises before it reaches _make_request
raise_early(op, exc, more) ==
  /\ result' = [more EXCEPT !.op = op, !.exc = exc]
  /\ UNCHANGED <<now, requests, recorded>>
  /\ UNCHANGED mvars
  /\ UNCHANGED ovars

Idle == result.op = "none"

NoAdj ==
  [op |-> "none", symbol |-> None, acquisition_date |-> 0, as_of_date |-> 0,
   quantity |-> Zero, cost_basis |-> Zero, price |-> Zero,
   position |-> NoPosition, pnl |-> NoPnl]

\* no call on the tracker is under way
NoQuery ==
  [op |-> "none", symbol |-> None, exc |-> "none", up |-> TRUE,
   synced |-> 0, known |-> 0, given |-> NoDec, quote |-> Zero,
   quotes |-> None,
   position |-> ZeroPosition(0), pnl |-> NoPositionPnl, summary |-> NoSummary]

\* a result of execute_trade that has no 'order' key
NoOrder == [id |-> None, qty |-> 0, side |-> None]

\* AdvancedTradingBot.__init__: daily_trades = 0; no execute_trade yet
NoBot ==
  [daily_trades |-> 0, op |-> "none", symbol |-> None, action |-> None,
   shares |-> 0, status |-> "none", exc |-> "none", order |-> NoOrder]

\* TradingScheduler.__init__, and no call yet
NoScheduler ==
  [daily_trades_executed |-> 0, trading_enabled |-> TRUE,
   last_portfolio_value |-> NoInt, op |-> "none", returned |-> None,
   exc |-> "none", clock |-> None, account |-> NoInt]

Threads == 1..NumThreads

\* every thread is about to call check_rate_limit for the first time
NoThreads == [t \in Threads |-> [pc |-> "check", kept |-> <<>>, left |-> Iterations]]

Init ==
  /\ now = 0
  /\ requests = <<>>
  /\ recorded = <<>>
  /\ result = NoCall
  /\ env = Unset
  /\ effMode = None
  /\ client = NoClient
  /\ actions = NoActions
  /\ adj = NoAdj
  /\ history = NoHistory
  /\ pnl_cache = NoCache
  /\ file = NoFile
  /\ today = 1
  /\ tq = NoQuery
  /\ threads = NoThreads
  /\ allowed = 0
  /\ bot = NoBot
  /\ sched = NoScheduler

\* time passes between calls
Tick ==
  /\ Idle
  /\ now < MaxTime
  /\ now' = now + 1
  /\ UNCHANGED <<requests, recorded, result>>
  /\ UNCHANGED mvars
  /\ UNCHANGED ovars

\* the caller has taken the value or the exception of the last call
Return ==
  /\ ~Idle
  /\ result' = NoCall
  /\ UNCHANGED <<now, requests, recorded>>
  /\ UNCHANGED mvars
  /\ UNCHANGED ovars

\* the brokerage's behaviour towards one request, as the callers see it
Bad400 == CHOOSE r \in FailResponses : r.status = 400

ServerInputs ==
  { x \in [fails : 0..MaxFails, failResp : FailResponses, okResp : OkResponses] :
      /\ (x.fails = 0 => x.failResp = Bad400)
      /\ (x.fails > 0 => x.okResp.json) }

ServerInputs1 == { x \in ServerInputs : x.fails <= 1 }

\* a direct call of _make_request(endpoint, method)
MakeRequestCall ==
  /\ Idle
  /\ \E method \in Methods, sv \in ServerInputs, extra \in 0..1 :
       returns(make_request("_make_request", method, sv.fails, sv.failResp, sv.okResp,
                            extra, NoCall))

GetAccount ==
  /\ Idle
  /\ \E sv \in ServerInputs1, extra \in 0..1 :
       returns(make_request("get_account", "GET", sv.fails, sv.failResp, sv.okResp,
                            extra, NoCall))

GetPosition ==
  /\ Idle
  /\ \E sv \in ServerInputs1, extra \in 0..1 :
       returns(make_request("get_position", "GET", sv.fails, sv.failResp, sv.okResp,
                            extra, NoCall))

\* has_position(symbol): get_position, with the brokerage's "no such
\* position" answer turned into False
has_position(r) ==
  IF r.exc = "none" THEN [r EXCEPT !.op = "has_position", !.value = "True"]
  ELSE IF /\ r.exc = "RuntimeError"
          /\ r.msg[2] = 404
          /\ r.msg[3] = "position does not exist"
  THEN [r EXCEPT !.op = "has_position", !.exc = "none", !.value = "False"]
  ELSE [r EXCEPT !.op = "has_position"]

HasPosition ==
  /\ Idle
  /\ \E sv \in ServerInputs1, extra \in 0..1 :
       LET after == make_request("get_position", "GET", sv.fails, sv.failResp,
                                 sv.okResp, extra, NoCall)
       IN returns([after EXCEPT !.result = has_position(after.result)])

\* ------------------------------------------------------------ place_order
OrderArgs == {None, "", "10"}

\* Python truthiness of an Optional[str] argument
Truthy(x) == x \notin {None, ""}

\* the request body place_order builds from qty and notional
OrderData(qty, notional) ==
  (IF Truthy(qty) THEN <<"qty">> ELSE <<>>)
    \o (IF Truthy(notional) THEN <<"notional">> ELSE <<>>)

\* `if not qty and not notional: raise ValueError`
OrderRejected(qty, notional) == ~Truthy(qty) /\ ~Truthy(notional)

PlaceOrder ==
  /\ Idle
  /\ \E qty \in OrderArgs, notional \in OrderArgs :
       LET more == [NoCall EXCEPT !.qty = qty, !.notional = notional] IN
       IF OrderRejected(qty, notional)
       THEN raise_early("place_order", "ValueError", more)
       ELSE \E sv \in ServerInputs1, extra \in 0..1 :
              returns(make_request("place_order", "POST", sv.fails, sv.failResp,
                                   sv.okResp, extra,
                                   [more EXCEPT !.sent = OrderData(qty, notional)]))

\* ------------------------------------------------------------ market data
DataOps == {"get_bars", "get_latest_quote", "get_latest_trade"}

\* the age in seconds of the data point the brokerage returns
Ages == {StaleThresholdMarketHours * 60, StaleThresholdMarketHours * 60 + 1,
         StaleThresholdOffHours * 60, StaleThresholdOffHours * 60 + 1}

\* get_bars, get_latest_quote, get_latest_trade: the parameters go into the
\* query and the response is returned as _make_request returned it.  None
\* of the three accepts a validate_freshness argument: given one, the call
\* fails with TypeError before any request.
MarketData(op) ==
  /\ Idle
  /\ \E vf \in {"unset", "True", "False"}, age \in Ages, open \in BOOLEAN :
       LET more == [NoCall EXCEPT !.vf = vf, !.age = age, !.marketOpen = open] IN
       IF vf # "unset"
       THEN raise_early(op, "TypeError", more)
       ELSE \E sv \in ServerInputs1, extra \in 0..1 :
              returns(make_request(op, "GET", sv.fails, sv.failResp, sv.okResp,
                                   extra, more))

GetBars == MarketData("get_bars")

GetLatestQuote == MarketData("get_latest_quote")

GetLatestTrade == MarketData("get_latest_trade")

Next ==
  \/ Tick
  \/ Return
  \/ MakeRequestCall
  \/ GetAccount
  \/ GetPosition
  \/ HasPosition
  \/ PlaceOrder
  \/ GetBars
  \/ GetLatestQuote
  \/ GetLatestTrade

Spec == Init /\ [][Next]_vars

\* ------------------------------------------------- MODE selection, alone
InitMode ==
  /\ now = 0
  /\ requests = <<>>
  /\ recorded = <<>>
  /\ result = NoCall
  /\ env \in EnvValues
  /\ effMode = None
  /\ client = NoClient
  /\ actions = NoActions
  /\ adj = NoAdj
  /\ history = NoHistory
  /\ pnl_cache = NoCache
  /\ file = NoFile
  /\ today = 1
  /\ tq = NoQuery
  /\ threads = NoThreads
  /\ allowed = 0
  /\ bot = NoBot
  /\ sched = NoScheduler

GetEffectiveMode ==
  /\ effMode' = get_effective_mode(env)
  /\ UNCHANGED <<env, client>>
  /\ UNCHANGED cvars
  /\ UNCHANGED ovars

\* _validate_connection that logs the failure and carries on
validate_connection_quiet(out) ==
  [exc |-> "none", msg |-> <<"", 0, "">>]

\* _validate_connection: get_account() in a try block; any Exception becomes
\* ConnectionError("Invalid Alpaca credentials or connection failed: ...")
validate_connection(out) ==
  IF out.exc = "none"
  THEN [exc |-> "none", msg |-> <<"", 0, "">>]
  ELSE [exc |-> "ConnectionError",
        msg |-> <<"Invalid Alpaca credentials or connection failed", 0, out.exc>>]

\* AlpacaTradingClient(credentials): a fresh session and a fresh rate
\* tracker, then _validate_connection; the tracker of a new client is empty,
\* so the account fetch is never delayed.  `built` is "ok" when the
\* constructor returns the object, else the exception it raises.
AlpacaTradingClient(mode, sv) ==
  LET chk == check_rate_limit(<<>>, now)
      resp == ServerResponse(sv.fails, sv.failResp, sv.okResp, 0)
      out == HandleResponse("GET", resp)
      v == validate_connection(out)
  IN [built |-> IF v.exc = "none" THEN "ok" ELSE v.exc,
      mode |-> mode, url |-> TradingUrl(mode),
      fetches |-> IF chk.can THEN out.https ELSE 0, resp |-> resp, msg |-> v.msg]

\* the environment variable get_client takes the key id of the mode from
ApiKeyVar(mode) ==
  IF mode = PAPER THEN "ALPACA_PAPER_API_KEY" ELSE "ALPACA_LIVE_API_KEY"

\* get_client(mode): the mode defaults to get_effective_mode(); then
\* create_paper_client or create_live_client builds the client
GetClient ==
  /\ \E arg \in {None, PAPER, LIVE}, sv \in ServerInputs1 :
       LET mode == IF arg = None THEN get_effective_mode(env) ELSE arg
           c == AlpacaTradingClient(mode, sv)
       IN client' = [built |-> c.built, explicit |-> arg, mode |-> c.mode,
                     url |-> c.url, fetches |-> c.fetches, resp |-> c.resp,
                     msg |-> c.msg, key |-> ApiKeyVar(c.mode),
                     header |-> ApiKeyVar(c.mode), switched |-> "none"]
  /\ UNCHANGED <<env, effMode>>
  /\ UNCHANGED cvars
  /\ UNCHANGED ovars

NextMode ==
  \/ GetEffectiveMode
  \/ GetClient

SpecMode == InitMode /\ [][NextMode]_vars

\* ------------------------------------------------ switch_mode, alone
\* AlpacaCredentials(api_key_id, secret_key, mode)
CredentialInputs ==
  { [mode |-> m, key |-> k] :
      m \in {PAPER, LIVE}, k \in {"ALPACA_PAPER_API_KEY", "ALPACA_LIVE_API_KEY"} }

\* the brokerage's answer to the account fetch of a validation: the
\* account, a rejection, an outage, no connection
ValidationInputs ==
  { x \in ServerInputs1 :
      /\ x.okResp.json
      /\ x.fails = 1 => x.failResp.message \in {"invalid request", "Service Unavailable",
                                                "Connection failed"} }

\* AlpacaTradingClient(credentials): the constructor's account fetch is the
\* first request of the client's new rate tracker
CreateClient ==
  /\ client.built # "ok"
  /\ Len(recorded) < MaxRecorded
  /\ \E creds \in CredentialInputs, sv \in ValidationInputs :
       LET c == AlpacaTradingClient(creds.mode, sv)
       IN client' = [built |-> c.built, explicit |-> creds.mode, mode |-> c.mode,
                     url |-> c.url, fetches |-> c.fetches, resp |-> c.resp,
                     msg |-> c.msg, key |-> creds.key, header |-> creds.key,
                     switched |-> "none"]
  /\ requests' = record_request(<<>>, now)
  /\ recorded' = Append(recorded, now)
  /\ UNCHANGED <<now, result, env, effMode>>
  /\ UNCHANGED ovars

\* switch_mode: self.credentials and the session headers are assigned
\* before _validate_connection runs, and nothing restores them when it raises
switch_mode(old, new_credentials, v) ==
  [old EXCEPT !.mode = new_credentials.mode,
              !.url = TradingUrl(new_credentials.mode),
              !.key = new_credentials.key, !.header = new_credentials.key]

\* client.switch_mode(new_credentials): the account fetch of the validation
\* goes through _make_request with the client's rate tracker
SwitchMode ==
  /\ client.built = "ok"
  /\ Len(recorded) < MaxRecorded
  /\ \E new_credentials \in CredentialInputs, sv \in ValidationInputs, extra \in 0..1 :
       LET after == make_request("switch_mode", "GET", sv.fails, sv.failResp,
                                 sv.okResp, extra, NoCall)
           v == validate_connection(after.result)
       IN /\ after.now <= MaxTime
          /\ now' = after.now
          /\ requests' = after.requests
          /\ recorded' = Append(recorded, after.now)
          /\ client' = [switch_mode(client, new_credentials, v) EXCEPT
                          !.switched = IF v.exc = "none" THEN "ok" ELSE v.exc,
                          !.resp = after.result.resp0, !.msg = v.msg]
  /\ UNCHANGED <<result, env, effMode>>
  /\ UNCHANGED ovars

NextSwitch ==
  \/ CreateClient
  \/ SwitchMode

SpecSwitch == Init /\ [][NextSwitch]_vars

\* --------------------------------------- the corporate-action ledger, alone
LedgerIdle == adj.op = "none"

RECURSIVE SumLen(_, _)
SumLen(f, S) ==
  IF S = {} THEN 0
  ELSE LET x == CHOOSE y \in S : TRUE IN Len(f[x]) + SumLen(f, S \ {x})

AddCorporateAction ==
  /\ LedgerIdle
  /\ SumLen(actions, Symbols) < MaxActions
  /\ \E i \in ActionInputs, d \in Dates :
       actions' = add_corporate_action(actions,
                    CorporateAction(i.symbol, i.type, d, i.ratio, NoInt, NoInt, i.amount))
  /\ UNCHANGED adj
  /\ UNCHANGED <<cvars, mvars, tvars, kvars, bvars>>

ApplyCorporateActions ==
  /\ LedgerIdle
  /\ \E d \in DateInputs, p \in PositionInputs :
       adj' = [NoAdj EXCEPT !.op = "apply_corporate_actions_to_position",
                 !.symbol = p.symbol, !.acquisition_date = d.acq, !.as_of_date = d.asof,
                 !.quantity = p.q, !.cost_basis = p.c,
                 !.position = apply_corporate_actions_to_position(actions, p.symbol,
                                d.acq, p.q, p.c, d.asof)]
  /\ UNCHANGED actions
  /\ UNCHANGED <<cvars, mvars, tvars, kvars, bvars>>

GetAdjustedPnl ==
  /\ LedgerIdle
  /\ \E d \in DateInputs, p \in PricedInputs :
       LET pos == apply_corporate_actions_to_position(actions, p.symbol, d.acq,
                                                      p.q, p.c, d.asof)
       IN adj' = [NoAdj EXCEPT !.op = "get_adjusted_pnl",
                    !.symbol = p.symbol, !.acquisition_date = d.acq, !.as_of_date = d.asof,
                    !.quantity = p.q, !.cost_basis = p.c, !.price = p.price,
                    !.position = pos,
                    !.pnl = get_adjusted_pnl(pos, p.q, p.c, p.price)]
  /\ UNCHANGED actions
  /\ UNCHANGED <<cvars, mvars, tvars, kvars, bvars>>

LedgerReturn ==
  /\ ~LedgerIdle
  /\ adj' = NoAdj
  /\ UNCHANGED actions
  /\ UNCHANGED <<cvars, mvars, tvars, kvars, bvars>>

NextLedger ==
  \/ AddCorporateAction
  \/ ApplyCorporateActions
  \/ GetAdjustedPnl
  \/ LedgerReturn

SpecLedger == Init /\ [][NextLedger]_vars

\* ------------------------- threads sharing one RateLimitTracker, alone
\* Each thread loops over check_rate_limit() and, if allowed,
\* record_request(); the tracker has no lock, so a thread can be preempted
\* between building the pruned list, storing it in self.requests, reading
\* len(self.requests) and appending.
At(t, pc) == threads[t].pc = pc

\* the next round of the loop of thread t, or its end
Looped(th) ==
  [th EXCEPT !.pc = IF th.left > 1 THEN "check" ELSE "done",
             !.kept = <<>>, !.left = th.left - 1]

\* [req_time for req_time in self.requests if now - req_time < self.time_window]
ThreadPrune(t) ==
  /\ At(t, "check")
  /\ threads' = [threads EXCEPT ![t].pc = "assign", ![t].kept = Prune(requests, now)]
  /\ UNCHANGED <<now, requests, recorded, result, allowed>>
  /\ UNCHANGED <<mvars, lvars, tvars, bvars>>

\* self.requests = ...
ThreadAssign(t) ==
  /\ At(t, "assign")
  /\ requests' = threads[t].kept
  /\ threads' = [threads EXCEPT ![t].pc = "compare", ![t].kept = <<>>]
  /\ UNCHANGED <<now, recorded, result, allowed>>
  /\ UNCHANGED <<mvars, lvars, tvars, bvars>>

\* if len(self.requests) < self.max_requests: return True, 0
ThreadAllowed(t) ==
  /\ At(t, "compare")
  /\ Len(requests) < MaxRequests
  /\ threads' = [threads EXCEPT ![t].pc = "record"]
  /\ allowed' = allowed + 1
  /\ UNCHANGED <<now, requests, recorded, result>>
  /\ UNCHANGED <<mvars, lvars, tvars, bvars>>

\* else: return False, wait_time
ThreadBlocked(t) ==
  /\ At(t, "compare")
  /\ Len(requests) >= MaxRequests
  /\ threads' = [threads EXCEPT ![t] = Looped(@)]
  /\ UNCHANGED <<now, requests, recorded, result, allowed>>
  /\ UNCHANGED <<mvars, lvars, tvars, bvars>>

\* self.requests.append(time.time())
ThreadRecord(t) ==
  /\ At(t, "record")
  /\ requests' = record_request(requests, now)
  /\ recorded' = Append(recorded, now)
  /\ threads' = [threads EXCEPT ![t] = Looped(@)]
  /\ UNCHANGED <<now, result, allowed>>
  /\ UNCHANGED <<mvars, lvars, tvars, bvars>>

\* time passes, within the window of the first request
ThreadTick ==
  /\ now < WindowTicks - 1
  /\ now' = now + 1
  /\ UNCHANGED <<requests, recorded, result>>
  /\ UNCHANGED <<mvars, lvars, tvars, kvars, bvars>>

NextThreads ==
  \/ \E t \in Threads : ThreadPrune(t)
  \/ \E t \in Threads : ThreadAssign(t)
  \/ \E t \in Threads : ThreadAllowed(t)
  \/ \E t \in Threads : ThreadBlocked(t)
  \/ \E t \in Threads : ThreadRecord(t)
  \/ ThreadTick

SpecThreads == Init /\ [][NextThreads]_vars

\* ------------------------------------------- the position tracker, alone
TrackerIdle == tq.op = "none"

\* the trades recorded by hand: they carry no order id
Manual(hist) ==
  SumLen([sym \in Symbols |-> SelectSeq(hist[sym], LAMBDA t : t.order_id = None)], Symbols)

\* record_trade(symbol, quantity, price, trade_type) with its save
RecordTradeStep(i, dsk) ==
  LET hist == record_trade(history, i.symbol, i.quantity, i.price, i.type, today, None)
  IN /\ history' = hist
     /\ pnl_cache' = clear_pnl_cache(pnl_cache, i.symbol)
     /\ file' = save_data(hist, clear_pnl_cache(pnl_cache, i.symbol), actions, file, dsk)
     /\ tq' = [NoQuery EXCEPT !.op = "record_trade", !.symbol = i.symbol]
     /\ UNCHANGED <<actions, adj, today>>
     /\ UNCHANGED <<cvars, mvars, kvars, bvars>>

\* PositionTracker.add_corporate_action(action) with its save
AddActionStep(i, d, dsk) ==
  LET acts == add_corporate_action(actions,
                CorporateAction(i.symbol, i.type, d, i.ratio, NoInt, NoInt, i.amount))
  IN /\ actions' = acts
     /\ pnl_cache' = clear_pnl_cache(pnl_cache, i.symbol)
     /\ file' = save_data(history, clear_pnl_cache(pnl_cache, i.symbol), acts, file, dsk)
     /\ tq' = [NoQuery EXCEPT !.op = "add_corporate_action", !.symbol = i.symbol]
     /\ UNCHANGED <<adj, history, today>>
     /\ UNCHANGED <<cvars, mvars, kvars, bvars>>

\* the caller has taken what the last call on the tracker returned
TrackerReturn ==
  /\ ~TrackerIdle
  /\ tq' = NoQuery
  /\ UNCHANGED <<actions, adj, history, pnl_cache, file, today>>
  /\ UNCHANGED <<cvars, mvars, kvars, bvars>>

\* midnight passes between two calls
NextDay ==
  /\ TrackerIdle
  /\ today < MaxDate
  /\ today' = today + 1
  /\ UNCHANGED <<actions, adj, history, pnl_cache, file, tq>>
  /\ UNCHANGED <<cvars, mvars, kvars, bvars>>

\* ---- the trade log and the position it gives, without a ledger
GetCurrentPosition ==
  /\ TrackerIdle
  /\ \E symbol \in Symbols :
       LET position == get_current_position(history, actions, symbol, today)
       IN tq' = [NoQuery EXCEPT !.op = "get_current_position", !.symbol = symbol,
                   !.exc = position.exc, !.position = position]
  /\ UNCHANGED <<actions, adj, history, pnl_cache, file, today>>
  /\ UNCHANGED <<cvars, mvars, kvars, bvars>>

\* buys, a sell of more than is held, a sell while nothing is held
FoldInputs ==
  { Buy("AAPL", 10, DecInt(40)), Buy("AAPL", 10, DecInt(50)),
    Sell("AAPL", 15, DecInt(50)), Sell("AAPL", 4, DecInt(50)) }

FoldRecordTrade ==
  /\ TrackerIdle
  /\ SumLen(history, Symbols) < MaxTrades
  /\ \E i \in FoldInputs : RecordTradeStep(i, "ok")

NextFold ==
  \/ FoldRecordTrade
  \/ GetCurrentPosition
  \/ TrackerReturn

SpecFold == Init /\ [][NextFold]_vars

\* ---- the queries, over trade logs and ledgers
QueryInputs == { Buy("AAPL", 10, DecInt(40)), Buy("MSFT", 5, DecInt(20)) }

\* a split, a dividend, a dividend announced without its amount
QueryActionInputs ==
  { x \in ActionInputs :
      /\ x.symbol = "AAPL"
      /\ \/ x.type = "stock_split" /\ x.ratio = SomeStr(<<"4", ":", "1">>)
         \/ x.type = "cash_dividend" }

\* the price given to get_position_pnl, and the quote it gets when none is
\* given (0 when the request for it fails)
PriceInputs ==
  { [given |-> NoDec, quote |-> Zero], [given |-> NoDec, quote |-> DecInt(18)],
    [given |-> SomeDec(Zero), quote |-> Zero],
    [given |-> SomeDec(DecInt(18)), quote |-> Zero] }

QueryRecordTrade ==
  /\ TrackerIdle
  /\ SumLen(history, Symbols) < MaxTrades
  /\ \E i \in QueryInputs : RecordTradeStep(i, "ok")

QueryAddCorporateAction ==
  /\ TrackerIdle
  /\ SumLen(actions, Symbols) < MaxActions
  /\ \E i \in QueryActionInputs : AddActionStep(i, today, "ok")

GetPositionPnl ==
  /\ TrackerIdle
  /\ \E symbol \in Symbols, price \in PriceInputs :
       LET pnl == get_position_pnl(history, actions, symbol, price.given,
                                   price.quote, today)
       IN tq' = [NoQuery EXCEPT !.op = "get_position_pnl", !.symbol = symbol,
                   !.given = price.given, !.quote = price.quote,
                   !.exc = pnl.exc, !.pnl = pnl]
  /\ UNCHANGED <<actions, adj, history, pnl_cache, file, today>>
  /\ UNCHANGED <<cvars, mvars, kvars, bvars>>

GetPortfolioSummary ==
  /\ TrackerIdle
  /\ \E up \in BOOLEAN, quotes \in QuoteInputs :
       tq' = [NoQuery EXCEPT !.op = "get_portfolio_summary", !.up = up,
                !.quotes = quotes,
                !.summary = get_portfolio_summary(up, BrokerPositions, history,
                                                  actions, quotes, today)]
  /\ UNCHANGED <<actions, adj, history, pnl_cache, file, today>>
  /\ UNCHANGED <<cvars, mvars, kvars, bvars>>

NextQueries ==
  \/ QueryRecordTrade
  \/ QueryAddCorporateAction
  \/ GetCurrentPosition
  \/ GetPositionPnl
  \/ GetPortfolioSummary
  \/ NextDay
  \/ TrackerReturn

SpecQueries == Init /\ [][NextQueries]_vars

\* ---- synchronisation with the broker, saves that fail, restarts
ManualInputs == { Buy("AAPL", 10, DecInt(40)) }

TrackedActionInputs ==
  { x \in ActionInputs : x.symbol = "AAPL" /\ x.type = "cash_dividend" /\ x.amount.set }

\* sync_with_alpaca_trades(days_back) on the day `day`; `up` is whether
\* the request for the orders succeeds
sync_with_alpaca_trades(hist, days_back, day, up) ==
  IF up THEN SyncLoop(get_orders(day - days_back, day), hist, 0, 0)
  ELSE [history |-> hist, synced |-> 0, known |-> 0]

\* the cache after the record_trade calls that took `hist` to `out`
SyncedCache(cache, hist, out) ==
  [sym \in Symbols |-> IF out[sym] = hist[sym] THEN cache[sym] ELSE None]

\* sync_with_alpaca_trades(days_back) with its saves: one outcome of
\* writing is drawn for all the saves of one run
SyncStep(days_back, dsk, up) ==
  LET out == sync_with_alpaca_trades(history, days_back, today, up)
  IN /\ history' = out.history
     /\ pnl_cache' = SyncedCache(pnl_cache, history, out.history)
     /\ file' = IF out.synced > 0
                THEN save_data(out.history,
                               SyncedCache(pnl_cache, history, out.history),
                               actions, file, dsk)
                ELSE file
     /\ tq' = [NoQuery EXCEPT !.op = "sync_with_alpaca_trades",
                 !.synced = out.synced, !.known = out.known]
     /\ UNCHANGED <<actions, adj, today>>
     /\ UNCHANGED <<cvars, mvars, kvars, bvars>>

SyncWithAlpacaTrades ==
  /\ TrackerIdle
  /\ \E days_back \in 0..MaxDaysBack, dsk \in DiskStates, up \in BOOLEAN :
       SyncStep(days_back, dsk, up)

SyncRecordTrade ==
  /\ TrackerIdle
  /\ Manual(history) < MaxManual
  /\ \E i \in ManualInputs, dsk \in DiskStates : RecordTradeStep(i, dsk)

SyncAddCorporateAction ==
  /\ TrackerIdle
  /\ SumLen(actions, Symbols) < MaxActions
  /\ \E i \in TrackedActionInputs, dsk \in DiskStates : AddActionStep(i, today, dsk)

\* PositionTracker(client, data_file): a new tracker on the same file
NewTracker ==
  /\ TrackerIdle
  /\ LET data == load_data(file)
     IN /\ history' = data.history
        /\ pnl_cache' = data.pnl_cache
        /\ actions' = data.actions
  /\ tq' = [NoQuery EXCEPT !.op = "PositionTracker"]
  /\ UNCHANGED <<adj, file, today>>
  /\ UNCHANGED <<cvars, mvars, kvars, bvars>>

NextSync ==
  \/ SyncWithAlpacaTrades
  \/ SyncRecordTrade
  \/ SyncAddCorporateAction
  \/ NewTracker
  \/ NextDay
  \/ TrackerReturn

SpecSync == Init /\ [][NextSync]_vars

\* ---- one tracker on a data file that already exists
\* an entry of pnl_cache, as a data file can carry it
CachedPnl == "cached"

\* the data file handed to the constructor: a document with a trade log
\* and a pnl_cache entry for each symbol
DataFileInputs ==
  { [state |-> "saved", history |-> h, pnl_cache |-> [sym \in Symbols |-> CachedPnl],
     actions |-> NoActions] :
      h \in { NoHistory,
              record_trade(NoHistory, "AAPL", 10, DecInt(40), "buy", 1, None) } }

\* PositionTracker(client, data_file) at the start of the program
OpenTracker ==
  /\ TrackerIdle
  /\ file = NoFile
  /\ history = NoHistory
  /\ actions = NoActions
  /\ \E f \in DataFileInputs :
       LET data == load_data(f)
       IN /\ file' = f
          /\ history' = data.history
          /\ pnl_cache' = data.pnl_cache
          /\ actions' = data.actions
  /\ tq' = [NoQuery EXCEPT !.op = "PositionTracker"]
  /\ UNCHANGED <<adj, today>>
  /\ UNCHANGED <<cvars, mvars, kvars, bvars>>

CacheRecordTrade ==
  /\ TrackerIdle
  /\ Manual(history) < MaxManual + 1
  /\ \E i \in QueryInputs : RecordTradeStep(i, "ok")

\* a split of either symbol
CacheActionInputs ==
  { x \in ActionInputs :
      x.type = "stock_split" /\ x.ratio = SomeStr(<<"4", ":", "1">>) }

CacheAddCorporateAction ==
  /\ TrackerIdle
  /\ SumLen(actions, Symbols) < MaxActions - 1
  /\ \E i \in CacheActionInputs : AddActionStep(i, today, "ok")

CacheSync ==
  /\ TrackerIdle
  /\ \E days_back \in 0..MaxDaysBack : SyncStep(days_back, "ok", TRUE)

NextCache ==
  \/ OpenTracker
  \/ CacheRecordTrade
  \/ CacheAddCorporateAction
  \/ CacheSync
  \/ GetCurrentPosition
  \/ NextDay
  \/ TrackerReturn

SpecCache == Init /\ [][NextCache]_vars

\* ---- a trading bot wrapped by enhance_trading_bot_with_corporate_actions
\* RiskManagementConfig.max_daily_trades of DEFAULT_RISK_CONFIG
RiskMaxDailyTrades == 3

\* evaluation['action']: the three buy signals, and one that is none of them
EvaluationInputs == {"strong_buy", "buy", "consider", "hold"}

\* what the broker does with get_account and with buy_market
BrokerInputs == {"ok", "fail"}

\* int(position_value / price), for the accounts and prices of the model
ShareInputs == {0, 5, 10}

\* the order buy_market returns: a market order carries no price
MarketOrder(shares) == [id |-> "o1", qty |-> shares, side |-> "buy"]

\* AdvancedTradingBot.execute_trade; calculate_position_size is called
\* outside the try, so a failed get_account leaves execute_trade as an
\* exception
execute_trade(b, symbol, action, account, shares, buy) ==
  LET call == [NoBot EXCEPT !.daily_trades = b.daily_trades, !.op = "execute_trade",
                 !.symbol = symbol, !.action = action]
  IN IF action \notin {"buy", "strong_buy", "consider"}
     THEN [call EXCEPT !.status = "skipped"]
     ELSE IF b.daily_trades >= RiskMaxDailyTrades
     THEN [call EXCEPT !.status = "skipped"]
     ELSE IF account = "fail" THEN [call EXCEPT !.exc = "Exception"]
     ELSE IF shares = 0 THEN [call EXCEPT !.status = "skipped"]
     ELSE IF buy = "fail" THEN [call EXCEPT !.status = "error", !.shares = shares]
     ELSE [call EXCEPT !.status = "success", !.shares = shares,
             !.daily_trades = @ + 1, !.order = MarketOrder(shares)]

\* result.get('status') == 'executed' and 'order' in result
ShouldRecord(r) == r.exc = "none" /\ r.status = "executed" /\ r.order # NoOrder

BotIdle == bot.op = "none"

\* enhanced_execute_trade(symbol, evaluation): the original method, then
\* the record of its order in the position tracker
EnhancedExecuteTradeStep(symbol, action, account, shares, buy) ==
  LET r == execute_trade(bot, symbol, action, account, shares, buy)
      quantity == IF r.order.side = "sell" THEN 0 - r.order.qty ELSE r.order.qty
      hist == record_trade(history, symbol, quantity, Zero, r.order.side, today, r.order.id)
  IN /\ bot' = r
     /\ IF ShouldRecord(r)
        THEN /\ history' = hist
             /\ pnl_cache' = clear_pnl_cache(pnl_cache, symbol)
             /\ file' = save_data(hist, clear_pnl_cache(pnl_cache, symbol), actions, file, "ok")
        ELSE UNCHANGED <<history, pnl_cache, file>>
     /\ UNCHANGED <<actions, adj, today, tq, sched>>
     /\ UNCHANGED <<cvars, mvars, kvars>>

EnhancedExecuteTrade ==
  /\ BotIdle
  /\ \E symbol \in Symbols, action \in EvaluationInputs, account \in BrokerInputs,
        shares \in ShareInputs, buy \in BrokerInputs :
       EnhancedExecuteTradeStep(symbol, action, account, shares, buy)

\* the caller has taken what execute_trade returned or raised
BotReturn ==
  /\ ~BotIdle
  /\ bot' = [NoBot EXCEPT !.daily_trades = bot.daily_trades]
  /\ UNCHANGED <<actions, adj, history, pnl_cache, file, today, tq, sched>>
  /\ UNCHANGED <<cvars, mvars, kvars>>

NextBot ==
  \/ EnhancedExecuteTrade
  \/ BotReturn

SpecBot == Init /\ [][NextBot]_vars

\* ---- the trading scheduler and its safety switches
\* self.max_daily_trades
max_daily_trades == 10

\* self.max_daily_loss_pct, in per cent
max_daily_loss_pct == 3

\* opportunities[:3]: the most trades one scan_and_trade executes
MaxScanTrades == 3

\* what the market clock request gives: is_open, not is_open, an exception
ClockInputs == {"open", "closed", "fail"}

\* account['portfolio_value'] of a fetched account, or a failed fetch
PortfolioInputs == {96, 98, 100}
AccountInputs == {NoInt} \cup { [set |-> TRUE, v |-> n] : n \in PortfolioInputs }

SchedCall(s, op, clock, account) ==
  [s EXCEPT !.op = op, !.returned = None, !.exc = "none", !.clock = clock, !.account = account]

\* the baseline of the loss check: the stored value, or on the first call the current one
Baseline(s, account) == IF s.last_portfolio_value.set THEN s.last_portfolio_value ELSE account

\* daily_pnl_pct < -self.max_daily_loss_pct, on whole numbers
LossExceeded(current, last) == (current - last) * 100 < (0 - max_daily_loss_pct) * last

check_trading_conditions_no_override(s, clock, account) ==
  LET call == SchedCall(s, "check_trading_conditions", clock, NoInt)
  IN IF clock = "fail" THEN [call EXCEPT !.exc = "Exception"]
     ELSE IF clock = "closed" THEN [call EXCEPT !.returned = "False"]
     ELSE IF s.daily_trades_executed >= max_daily_trades
     THEN [call EXCEPT !.returned = "False"]
     ELSE IF ~account.set THEN [call EXCEPT !.returned = "False", !.account = account]
     ELSE IF LossExceeded(account.v, Baseline(s, account).v)
     THEN [call EXCEPT !.returned = "False", !.account = account,
             !.last_portfolio_value = Baseline(s, account), !.trading_enabled = FALSE]
     ELSE [call EXCEPT !.returned = "True", !.account = account,
             !.last_portfolio_value = Baseline(s, account)]

\* TradingScheduler.check_trading_conditions: is_market_open is called
\* outside the try, the account fetch inside it
check_trading_conditions(s, clock, account) ==
  LET call == SchedCall(s, "check_trading_conditions", clock, NoInt)
  IN IF clock = "fail" THEN [call EXCEPT !.exc = "Exception"]
     ELSE IF clock = "closed" THEN [call EXCEPT !.returned = "False"]
     ELSE IF s.daily_trades_executed >= max_daily_trades
     THEN [call EXCEPT !.returned = "False"]
     ELSE IF ~account.set THEN [call EXCEPT !.returned = "False", !.account = account]
     ELSE IF LossExceeded(account.v, Baseline(s, account).v)
     THEN [call EXCEPT !.returned = "False", !.account = account,
             !.last_portfolio_value = Baseline(s, account), !.trading_enabled = FALSE]
     ELSE [call EXCEPT !.returned = IF s.trading_enabled THEN "True" ELSE "False",
             !.account = account, !.last_portfolio_value = Baseline(s, account)]

\* run_momentum_strategy and run_mean_reversion_strategy: the check, then
\* scan_and_trade, whose exception is logged; trades is the number of
\* trades the scan executed, or -1 when it raised
run_strategy(s, clock, account, trades) ==
  LET c == check_trading_conditions(s, clock, account)
      call == [c EXCEPT !.op = "run_strategy", !.returned = None]
  IN IF c.exc # "none" \/ c.returned # "True" \/ trades < 0 THEN call
     ELSE [call EXCEPT !.daily_trades_executed = @ + trades]

\* TradingScheduler.daily_reset: the exception of the fetch is logged
daily_reset(s, account) ==
  LET call == SchedCall(s, "daily_reset", None, account)
  IN IF ~account.set THEN call
     ELSE [call EXCEPT !.last_portfolio_value = account, !.daily_trades_executed = 0,
             !.trading_enabled = TRUE]

\* TradingScheduler.emergency_stop; cancel_all_orders may fail, and is logged
emergency_stop(s) ==
  [SchedCall(s, "emergency_stop", None, NoInt) EXCEPT !.trading_enabled = FALSE]

SchedIdle == sched.op = "none"

SchedStep(s) ==
  /\ SchedIdle
  /\ sched' = s
  /\ UNCHANGED <<actions, adj, history, pnl_cache, file, today, tq, bot>>
  /\ UNCHANGED <<cvars, mvars, kvars>>

CheckTradingConditions ==
  \E clock \in ClockInputs, account \in AccountInputs :
    SchedStep(check_trading_conditions(sched, clock, account))

RunStrategy ==
  \E clock \in ClockInputs, account \in AccountInputs, trades \in -1..MaxScanTrades :
    SchedStep(run_strategy(sched, clock, account, trades))

DailyReset == \E account \in AccountInputs : SchedStep(daily_reset(sched, account))

EmergencyStop == SchedStep(emergency_stop(sched))

\* the scheduler loop has taken what the job returned or raised
SchedReturn ==
  /\ ~SchedIdle
  /\ sched' = SchedCall(sched, "none", None, NoInt)
  /\ UNCHANGED <<actions, adj, history, pnl_cache, file, today, tq, bot>>
  /\ UNCHANGED <<cvars, mvars, kvars>>

NextSched ==
  \/ CheckTradingConditions
  \/ RunStrategy
  \/ DailyReset
  \/ EmergencyStop
  \/ SchedReturn

SpecSched == Init /\ [][NextSched]_vars

\* ================================================================ claims
SetMin(S) == CHOOSE x \in S : \A y \in S : x <= y

CeilDiv(a, b) == (a + b - 1) \div b

\* the recorded timestamps inside the window that trails the instant t
InWindow(t) ==
  { i \in 1..Len(recorded) : recorded[i] <= t /\ t - recorded[i] < WindowTicks }

\* the last call went through _make_request
Requested == result.trace # <<>>

\* the timestamps of the tracker's list that the check of the last call kept
Kept == { i \in 1..Len(result.before) : result.t0 - result.before[i] < WindowTicks }

\* ticks left, at the check of the last call, until the oldest kept
\* timestamp leaves the window
Remaining ==
  WindowTicks - (result.t0 - SetMin({ result.before[i] : i \in Kept }))

Http4xx(resp) == resp.kind = "http" /\ resp.status >= 400 /\ resp.status < 500

Http5xx(resp) == resp.kind = "http" /\ resp.status >= 500

\* the arguments of the sleeps a call made after its first HTTP attempt
BackoffSleeps(tr) ==
  LET first == IF EvAt(tr, "http") = {} THEN Len(tr) + 1 ELSE SetMin(EvAt(tr, "http"))
      late == SelectSeq(SubSeq(tr, first, Len(tr)), LAMBDA e : e.ev = "sleep")
  IN [i \in 1..Len(late) |-> late[i].arg]

\* C1: when every request goes through _make_request (check, sleep the wait
\* time when blocked, record), no trailing window of time_window seconds
\* holds more than max_requests recorded timestamps.
C1_RateWindowInvariant ==
  \A t \in 0..MaxTime : Cardinality(InWindow(t)) <= MaxRequests

C1_Witness ==
  /\ result.blocked
  /\ Len(recorded) > MaxRequests
  /\ Cardinality(InWindow(now)) = MaxRequests

\* C2 (as amended): check_rate_limit returns (True, 0) exactly when fewer
\* than max_requests timestamps remain after pruning, and otherwise
\* (False, w) with w = int(time_window - (now - oldest)) + 1, the seconds
\* truncated and not rounded up, oldest being the oldest remaining timestamp.
C2_CheckRateLimitTruncates ==
  Requested =>
    /\ Len(requests) = Cardinality(Kept) + 1
    /\ IF Cardinality(Kept) < MaxRequests
       THEN ~result.blocked /\ result.wait = 0
       ELSE result.blocked /\ result.wait = (Remaining \div TicksPerSec) + 1

\* C2 (as stated): ... w = ceil(time_window - (now - oldest)) + 1.
C2_CheckRateLimitCeil ==
  Requested =>
    IF Cardinality(Kept) < MaxRequests
    THEN ~result.blocked /\ result.wait = 0
    ELSE result.blocked /\ result.wait = CeilDiv(Remaining, TicksPerSec) + 1

C2_Witness ==
  /\ result.blocked
  /\ Remaining % TicksPerSec # 0
  /\ \E i \in Kept, j \in Kept : result.before[i] # result.before[j]
  /\ Cardinality(Kept) < Len(result.before)

\* C3: a request whose attempts fail with 5xx or a network error is retried:
\* with max_retries = R, _make_request makes up to R+1 attempts with one
\* backoff sleep between consecutive attempts, returns the first successful
\* response and raises only after R+1 failed attempts.
C3_RetriesTransientFailures ==
  (/\ result.op = "_make_request"
   /\ result.method \in SupportedMethods
   /\ result.fails > 0
   /\ Retryable(result.resp0))
  => LET attempts == Min(result.fails, DefaultMaxRetries) + 1 IN
     /\ CountEv(result.trace, "http") = attempts
     /\ Len(BackoffSleeps(result.trace)) = attempts - 1
     /\ (result.fails <= DefaultMaxRetries => result.exc = "none")
     /\ (result.fails > DefaultMaxRetries => result.exc # "none")

\* C4: a 4xx response makes _make_request raise RuntimeError carrying the
\* status code and the brokerage message, after exactly one HTTP attempt and
\* with no sleep after it.
C4_ClientErrorFailsAtOnce ==
  (/\ Requested
   /\ result.op # "has_position"
   /\ result.method \in SupportedMethods
   /\ Http4xx(result.resp0))
  => /\ result.exc = "RuntimeError"
     /\ result.msg = <<"Alpaca API error", result.resp0.status, result.resp0.message>>
     /\ CountEv(result.trace, "http") = 1
     /\ BackoffSleeps(result.trace) = <<>>

C4_Witness ==
  /\ result.op = "_make_request"
  /\ result.exc = "RuntimeError"
  /\ result.msg[2] = 404
  /\ result.blocked

\* C5: for N consecutive 5xx failures of one request the backoff sleeps are
\* min(2^0, 32), min(2^1, 32), ..., one after each failed attempt that is
\* retried.
C5_BackoffSchedule ==
  (/\ result.op = "_make_request"
   /\ result.method \in SupportedMethods
   /\ result.fails > 0
   /\ Http5xx(result.resp0))
  => BackoffSleeps(result.trace) =
       [i \in 1..Min(result.fails, DefaultMaxRetries) |-> Min(Pow2(i - 1), BackoffCap)]

\* C6: every HTTP attempt is preceded by one rate-limit check and one
\* record_request of its own; a full window makes the client sleep the
\* reported wait time and then send the request, and the outcome of the call
\* is that of the request.
C6_RateLimitBeforeEveryAttempt ==
  Requested =>
    LET tr == result.trace IN
    /\ \A i \in EvAt(tr, "http") :
         LET nth == Cardinality({ j \in EvAt(tr, "http") : j <= i }) IN
         /\ Cardinality({ j \in EvAt(tr, "check") : j < i }) = nth
         /\ Cardinality({ j \in EvAt(tr, "record") : j < i }) = nth
    /\ result.blocked =>
         /\ result.wait > 0
         /\ \E c \in EvAt(tr, "check"), z \in EvAt(tr, "sleep"), r \in EvAt(tr, "record") :
              /\ c < z /\ z < r
              /\ tr[z].arg = result.wait
              /\ tr[r].arg >= result.t0 + result.wait * TicksPerSec
         /\ (result.method \in SupportedMethods => CountEv(tr, "http") = 1)
         /\ (/\ result.method \in SupportedMethods
             /\ result.resp0.kind = "http"
             /\ result.resp0.status < 400) => result.exc = "none"

C6_Witness ==
  /\ result.blocked
  /\ result.exc = "none"
  /\ CountEv(result.trace, "http") = 1
  /\ CountEv(result.trace, "sleep") = 1

\* C7: place_order with both qty and notional set, or with neither, fails
\* validation before any request is made or recorded; an order is submitted
\* only with exactly one of the two.
C7_QtyXorNotional ==
  result.op = "place_order" =>
    /\ (Truthy(result.qty) <=> Truthy(result.notional))
         => (result.exc = "ValueError" /\ result.trace = <<>>)
    /\ CountEv(result.trace, "http") > 0
         => (Truthy(result.qty) /\ ~Truthy(result.notional))
            \/ (~Truthy(result.qty) /\ Truthy(result.notional))

StaleThreshold(open) ==
  IF open THEN StaleThresholdMarketHours * 60 ELSE StaleThresholdOffHours * 60

\* C9: a bar, quote or trade older than the threshold (5 minutes with the
\* market open, 60 minutes closed) fails the call with a staleness error when
\* validation is on, and is returned with metadata marking it stale when the
\* caller turned validation off; other calls are never rejected as stale.
C9_StaleDataRejected ==
  /\ (/\ result.op \in DataOps
      /\ result.age > StaleThreshold(result.marketOpen)
      /\ result.vf # "False"
      /\ result.resp0.kind = "http" /\ result.resp0.status < 400)
     => result.exc = "StaleDataError"
  /\ (/\ result.op \in DataOps
      /\ result.age > StaleThreshold(result.marketOpen)
      /\ result.vf = "False")
     => (result.exc = "none" /\ result.freshness = "stale")
  /\ result.op \notin DataOps => result.exc # "StaleDataError"

\* MODE, trimmed and compared without regard to case, is LIVE
EnvIsLive ==
  /\ env.set
  /\ \E a \in 0..Len(env.value) :
       /\ a + 4 <= Len(env.value)
       /\ \A i \in 1..a : env.value[i] \in Whitespace
       /\ \A i \in (a + 5)..Len(env.value) : env.value[i] \in Whitespace
       /\ env.value[a + 1] \in {"l", "L"}
       /\ env.value[a + 2] \in {"i", "I"}
       /\ env.value[a + 3] \in {"v", "V"}
       /\ env.value[a + 4] \in {"e", "E"}

\* C10: get_effective_mode returns LIVE only when MODE, trimmed and compared
\* case-insensitively, is LIVE, and PAPER otherwise; a client that get_client
\* builds without an explicit mode uses the live trading URL only then.
C10_PaperUnlessLive ==
  /\ effMode # None =>
       /\ effMode \in {PAPER, LIVE}
       /\ effMode = LIVE <=> EnvIsLive
  /\ (client.built # "none" /\ client.explicit = None) =>
       /\ client.url = "https://api.alpaca.markets" <=> EnvIsLive
       /\ ~EnvIsLive => client.url = "https://paper-api.alpaca.markets"

C10_Witness ==
  /\ effMode = LIVE
  /\ env.value # <<"L", "I", "V", "E">>
  /\ Len(env.value) > 4
  /\ client.built = "ok"
  /\ client.explicit = None
  /\ client.url = "https://api.alpaca.markets"

\* C11: constructing AlpacaTradingClient fetches the account once before it
\* returns; when that fetch fails, by an HTTP error status or by a network
\* error, the constructor raises ConnectionError and returns no client.
C11_ConstructorValidates ==
  client.built # "none" =>
    /\ client.fetches = 1
    /\ (client.built = "ok" <=>
          (client.resp.kind = "http" /\ client.resp.status < 400))
    /\ (client.built # "ok" =>
          /\ client.built = "ConnectionError"
          /\ client.msg[1] = "Invalid Alpaca credentials or connection failed")

C11_Witness ==
  /\ client.built = "ConnectionError"
  /\ client.resp.kind = "neterr"
  /\ client.fetches = 1

\* ---- the corporate-action ledger
LedgerCall == adj.op \in {"apply_corporate_actions_to_position", "get_adjusted_pnl"}

Answered == LedgerCall /\ adj.position.exc = "none"

Adjustments == adj.position.adjustments

SplitsMade == { i \in 1..Len(Adjustments) : Adjustments[i].adjustment_type = "split" }

\* the ratio of a split action gives two integers to > 0 and from > 0
WellFormed(a) == TruthyInt(a.split_to) /\ TruthyInt(a.split_from)

\* a and b differ by at most 2n units in the last place of a float of b's size
Near(a, b, n) ==
  DecLe(DecMul(DecAbs(DecSub(a, b)), DecInt(Pow10(FloatDigits - 1))),
        DecMul(DecInt(2 * n), DecAbs(b)))

\* x = y * num / den within the rounding of one split
Scaled(x, y, num, den) == Near(DecMul(x, DecInt(den)), DecMul(y, DecInt(num)), 1)

\* C12: for quantity Q > 0, cost basis C > 0 and a split ratio (to, from)
\* with to > 0 and from > 0, calculate_stock_split_adjustment yields
\* quantity Q*to/from and cost basis C*from/to and preserves the total cost
\* within rounding tolerance, and so does every chain of such splits folded
\* by apply_corporate_actions_to_position.
C12_SplitPreservesTotalCost ==
  (/\ Answered
   /\ adj.quantity.m > 0 /\ adj.cost_basis.m > 0
   /\ \A i \in SplitsMade : WellFormed(Adjustments[i].action))
  => /\ \A i \in SplitsMade :
          LET x == Adjustments[i] IN
          /\ Scaled(x.adjusted_quantity, x.original_quantity,
                    x.action.split_to.v, x.action.split_from.v)
          /\ Scaled(x.adjusted_cost_basis, x.original_cost_basis,
                    x.action.split_from.v, x.action.split_to.v)
          /\ Near(x.adjusted_total_cost, x.original_total_cost, 1)
     /\ Near(DecMul(adj.position.adjusted_quantity, adj.position.adjusted_cost_basis),
             DecMul(adj.quantity, adj.cost_basis), Cardinality(SplitsMade))

C12_Witness ==
  /\ Answered
  /\ Cardinality(SplitsMade) = 2
  /\ \A i \in SplitsMade : WellFormed(Adjustments[i].action)
  /\ \E i \in SplitsMade :
       Adjustments[i].action.split_to.v < Adjustments[i].action.split_from.v
  /\ DecMul(adj.position.adjusted_quantity, adj.position.adjusted_cost_basis)
       # DecMul(adj.quantity, adj.cost_basis)

\* the actions of the queried symbol with acquisition_date <= ex_date <= as_of_date
\* that are splits or cash/special dividends, in the order of the ledger
Applicable ==
  SelectSeq(actions[adj.symbol],
            LAMBDA a : /\ adj.acquisition_date <= a.ex_date
                       /\ a.ex_date <= adj.as_of_date
                       /\ a.action_type \in SplitTypes \cup DividendTypes)

\* the quantity and the cost basis that run into the i-th adjustment
RECURSIVE RunningQuantity(_)
RunningQuantity(i) ==
  IF i = 1 THEN adj.quantity
  ELSE IF (i - 1) \in SplitsMade THEN Adjustments[i - 1].adjusted_quantity
  ELSE RunningQuantity(i - 1)

RECURSIVE RunningCostBasis(_)
RunningCostBasis(i) ==
  IF i = 1 THEN adj.cost_basis
  ELSE IF (i - 1) \in SplitsMade THEN Adjustments[i - 1].adjusted_cost_basis
  ELSE RunningCostBasis(i - 1)

RECURSIVE DividendsUpTo(_)
DividendsUpTo(i) ==
  IF i = 0 THEN Zero ELSE DecAdd(DividendsUpTo(i - 1), Adjustments[i].cash_adjustment)

\* C13: apply_corporate_actions_to_position applies exactly the actions of
\* the symbol with acquisition_date <= ex_date <= as_of_date, in ascending
\* ex_date order; a split multiplies the running quantity by to/from and the
\* running cost basis by from/to; a cash or special dividend adds (running
\* quantity) * dividend_amount to the dividends and changes neither.
C13_AppliesInExDateOrder ==
  (/\ Answered
   /\ \A i \in 1..Len(Applicable) :
        Applicable[i].action_type \in SplitTypes => WellFormed(Applicable[i]))
  => /\ [i \in 1..Len(Adjustments) |-> Adjustments[i].action] = Applicable
     /\ adj.position.actions_applied = Len(Applicable)
     /\ \A i, j \in 1..Len(Adjustments) :
          i < j => Adjustments[i].action.ex_date <= Adjustments[j].action.ex_date
     /\ \A i \in 1..Len(Adjustments) :
          LET x == Adjustments[i] IN
          /\ x.original_quantity = RunningQuantity(i)
          /\ IF i \in SplitsMade
             THEN /\ x.original_cost_basis = RunningCostBasis(i)
                  /\ Scaled(x.adjusted_quantity, RunningQuantity(i),
                            x.action.split_to.v, x.action.split_from.v)
                  /\ Scaled(x.adjusted_cost_basis, RunningCostBasis(i),
                            x.action.split_from.v, x.action.split_to.v)
                  /\ x.cash_adjustment = Zero
             ELSE /\ x.adjusted_quantity = RunningQuantity(i)
                  /\ x.cash_adjustment =
                       DecMul(RunningQuantity(i), x.action.dividend_amount.v)
     /\ adj.position.adjusted_quantity = RunningQuantity(Len(Adjustments) + 1)
     /\ adj.position.adjusted_cost_basis = RunningCostBasis(Len(Adjustments) + 1)
     /\ adj.position.total_dividends_received = DividendsUpTo(Len(Adjustments))

C13_Witness ==
  /\ Answered
  /\ Len(Adjustments) = 2
  /\ Len(actions[adj.symbol]) = 2
  /\ Adjustments[1].adjustment_type = "split"
  /\ WellFormed(Adjustments[1].action)
  /\ Adjustments[1].adjusted_quantity # adj.quantity
  /\ Adjustments[2].adjustment_type = "dividend"
  /\ Adjustments[2].action.ex_date = adj.as_of_date
  /\ adj.position.total_dividends_received =
       DecMul(Adjustments[1].adjusted_quantity, Adjustments[2].action.dividend_amount.v)

\* C14: get_adjusted_pnl returns original_total_cost = acquisition quantity *
\* acquisition cost per share, current_market_value = adjusted quantity *
\* price, capital_pnl = current_market_value - adjusted quantity * adjusted
\* cost basis, total_pnl = capital_pnl + dividends_received, and
\* total_return_pct = total_pnl / original_total_cost * 100, or 0 when
\* original_total_cost is 0.
C14_AdjustedPnl ==
  (adj.op = "get_adjusted_pnl" /\ adj.pnl.exc = "none")
  => LET pos == adj.position
         original == DecMul(adj.quantity, adj.cost_basis)
         value == DecMul(pos.adjusted_quantity, adj.price)
         capital == DecSub(value, DecMul(pos.adjusted_quantity, pos.adjusted_cost_basis))
         total == DecAdd(capital, pos.total_dividends_received)
     IN /\ adj.pnl.original_total_cost = ToFloat(original)
        /\ adj.pnl.current_market_value = ToFloat(value)
        /\ adj.pnl.capital_pnl = ToFloat(capital)
        /\ adj.pnl.dividends_received = ToFloat(pos.total_dividends_received)
        /\ adj.pnl.total_pnl = ToFloat(total)
        /\ adj.pnl.total_return_pct =
             IF original = Zero THEN Zero
             ELSE ToFloat(DecMul(DecDiv(total, original), DecInt(100)))

\* 10 shares at 40 with a 4:1 split and a 0.2 dividend at price 18:
\* 40 shares, value 720, capital P&L 320, dividends 8, total P&L 328, 82 %
C14_Witness ==
  /\ adj.op = "get_adjusted_pnl"
  /\ adj.pnl.exc = "none"
  /\ adj.quantity = DecInt(10) /\ adj.cost_basis = DecInt(40)
  /\ adj.position.adjusted_quantity = DecInt(40)
  /\ adj.pnl.original_total_cost = DecInt(400)
  /\ adj.pnl.current_market_value = DecInt(720)
  /\ adj.pnl.capital_pnl = DecInt(320)
  /\ adj.pnl.dividends_received = DecInt(8)
  /\ adj.pnl.total_pnl = DecInt(328)
  /\ adj.pnl.total_return_pct = DecInt(82)

\* C15: a split or reverse-split action whose ratio string is malformed is
\* never applied as a silent 1:1 no-op: apply_corporate_actions_to_position
\* returns no such action as an applied adjustment that leaves quantity and
\* cost basis unchanged.
C15_MalformedRatioNotApplied ==
  Answered =>
    \A i \in SplitsMade :
      LET x == Adjustments[i] IN
      ~(/\ x.action.split_ratio.value \in MalformedRatios
        /\ x.adjusted_quantity = x.original_quantity
        /\ x.adjusted_cost_basis = x.original_cost_basis)

\* ---- the position tracker
OrderIds == { BrokerFills[i].id : i \in 1..Len(BrokerFills) }

\* the records of a trade log that carry the order id
Records(trades, id) == { i \in 1..Len(trades) : trades[i].order_id = id }

\* C16: sync_with_alpaca_trades is idempotent. Whatever windows the runs
\* cover, a run leaves at most one record per broker order id in a symbol's
\* trade log, and it only appends: the records there before it are kept,
\* so an order id already present gets no second record.
C16_SyncIdempotent ==
  [][tq'.op = "sync_with_alpaca_trades" =>
       \A sym \in Symbols :
         /\ Len(history'[sym]) >= Len(history[sym])
         /\ SubSeq(history'[sym], 1, Len(history[sym])) = history[sym]
         /\ \A id \in OrderIds : Cardinality(Records(history'[sym], id)) <= 1]_vars

\* a run over a window whose orders are all recorded already: nothing is added
C16_Witness ==
  /\ tq.op = "sync_with_alpaca_trades"
  /\ tq.known >= 2
  /\ tq.synced = 0
  /\ \E sym \in Symbols, id \in OrderIds : Records(history[sym], id) # {}

\* what a tracker constructed on the file now would hold
Reloaded == load_data(file)

\* C17: save-on-mutate durability. Once record_trade or
\* add_corporate_action has returned, the state file holds the mutation: a
\* new tracker constructed on the file loads the trade log and the
\* corporate-action ledger of the tracker that wrote them, also when the
\* save attempt failed.
C17_SaveOnMutate ==
  tq.op \in {"record_trade", "add_corporate_action"} =>
    /\ Reloaded.history = history
    /\ Reloaded.actions = actions

\* the average-cost fold of a trade log: a buy adds its quantity and its
\* quantity * price; a sell takes its shares off the running quantity and
\* shares * (running total cost / running quantity) off the running total
\* cost. The quotient does not exist for a sell at running quantity zero.
RECURSIVE AverageCostFold(_, _, _)
AverageCostFold(trades, quantity, cost) ==
  IF trades = <<>> THEN [defined |-> TRUE, quantity |-> quantity, cost |-> cost]
  ELSE LET trade == Head(trades)
           n == DecInt(trade.quantity)
       IN IF trade.type = "buy"
          THEN AverageCostFold(Tail(trades), DecAdd(quantity, n),
                               DecAdd(cost, DecMul(n, trade.price)))
          ELSE IF quantity.m = 0
          THEN [defined |-> FALSE, quantity |-> quantity, cost |-> cost]
          ELSE AverageCostFold(Tail(trades), DecAdd(quantity, n),
                               DecSub(cost, DecMul(DecAbs(n), DecDiv(cost, quantity))))

\* C18: with no applicable corporate action, get_current_position is the
\* average-cost fold of the symbol's trade log in log order: the zero-position
\* sentinel when the final quantity is <= 0, else the final quantity and
\* the final total cost per share.
C18_AverageCostFold ==
  LET trades == history[tq.symbol]
      fold == AverageCostFold(trades, Zero, Zero)
  IN (/\ tq.op = "get_current_position"
      /\ actions[tq.symbol] = <<>>
      /\ fold.defined)
     => IF fold.quantity.m <= 0
        THEN tq.position = ZeroPosition(Len(trades))
        ELSE /\ tq.position.quantity = ToFloat(fold.quantity)
             /\ tq.position.cost_basis = ToFloat(DecDiv(fold.cost, fold.quantity))

\* get_position_pnl has computed the position
Computed(pnl) == pnl.exc = "none" /\ pnl.kind \notin {"error", "no_position"}

\* the positions of the broker that get_position_pnl can compute
Computable ==
  { sym \in Symbols :
      \E i \in 1..Len(BrokerPositions) :
        /\ BrokerPositions[i] = sym
        /\ Computed(get_position_pnl(history, actions, sym, NoDec, tq.quotes[sym], today)) }

\* C19: the queries of the tracker never raise on a computation failure.
\* For every trade log and every ledger, get_current_position and
\* get_position_pnl return a result, and get_portfolio_summary, when the
\* broker answers, returns a summary that holds every position that can be
\* computed.
C19_QueriesNeverRaise ==
  /\ tq.op \in {"get_current_position", "get_position_pnl"} => tq.exc = "none"
  /\ (tq.op = "get_portfolio_summary" /\ tq.up) =>
       /\ ~tq.summary.error
       /\ \A sym \in Computable :
            \E i \in 1..Len(tq.summary.positions) : tq.summary.positions[i] = sym

\* ---- threads sharing one RateLimitTracker
\* the requests recorded in the window that ends now
RecordedInWindow == { i \in 1..Len(recorded) : now - recorded[i] < WindowTicks }

\* C20: threads that share one RateLimitTracker share its budget. Under
\* every interleaving of threads that call check_rate_limit() and then
\* record_request() only if allowed, at most max_requests requests are
\* allowed and recorded within one time window.
C20_SharedBudget ==
  /\ allowed <= MaxRequests
  /\ Cardinality(RecordedInWindow) <= MaxRequests

\* C21: whenever check_rate_limit() reports the window full, the wait time
\* it returns is strictly positive and does not exceed time_window.
C21_WaitWithinWindow ==
  (Requested /\ result.blocked) =>
    /\ result.wait > 0
    /\ result.wait <= TimeWindow

\* the list `old` is the beginning of the list `new`
IsPrefix(old, new) ==
  Len(old) <= Len(new) /\ SubSeq(new, 1, Len(old)) = old

\* C22: the trade log is append-only: whatever record_trade,
\* add_corporate_action, sync_with_alpaca_trades or a query does on a
\* tracker, each symbol's list keeps the records it had, unmodified and in
\* the same order, and a query stores nothing: the position it returns is
\* the one derived from the log, and the log, the cache and the file are
\* left as they were.
C22_AppendOnlyLog ==
  [][tq'.op # "PositionTracker" =>
       /\ \A sym \in Symbols : IsPrefix(history[sym], history'[sym])
       /\ tq'.op = "get_current_position" =>
            /\ tq'.position = get_current_position(history, actions, tq'.symbol, today)
            /\ UNCHANGED <<history, pnl_cache, file, actions>>]_vars

C22_Witness ==
  /\ tq.op = "get_current_position"
  /\ Len(history[tq.symbol]) >= 3
  /\ tq.position.trades_count = Len(history[tq.symbol])
  /\ \E i \in 1..Len(history[tq.symbol]) : history[tq.symbol][i].order_id # None
  /\ \E i \in 1..Len(history[tq.symbol]) : history[tq.symbol][i].order_id = None
  /\ actions[tq.symbol] # <<>>

\* C23: record_trade(symbol, ...) appends exactly one record to the
\* symbol's list and removes the symbol's pnl_cache entry,
\* add_corporate_action(action) removes the pnl_cache entry of
\* action.symbol, and both leave the trade lists and the pnl_cache entries
\* of every other symbol as they were.
C23_CacheInvalidated ==
  [][tq'.op \in {"record_trade", "add_corporate_action"} =>
       /\ pnl_cache'[tq'.symbol] = None
       /\ \A sym \in Symbols \ {tq'.symbol} :
            history'[sym] = history[sym] /\ pnl_cache'[sym] = pnl_cache[sym]
       /\ IF tq'.op = "record_trade"
          THEN /\ Len(history'[tq'.symbol]) = Len(history[tq'.symbol]) + 1
               /\ IsPrefix(history[tq'.symbol], history'[tq'.symbol])
          ELSE history'[tq'.symbol] = history[tq'.symbol]]_vars

\* every data file of DataFileInputs carries an entry for each symbol, so a
\* symbol without one has lost it
C23_Witness ==
  /\ tq.op \in {"record_trade", "add_corporate_action"}
  /\ file.state = "saved"
  /\ pnl_cache[tq.symbol] = None
  /\ \E sym \in Symbols \ {tq.symbol} : pnl_cache[sym] = CachedPnl /\ history[sym] # <<>>

\* C24: when the connectivity validation inside switch_mode fails,
\* switch_mode raises and leaves the client as it was before the call:
\* credentials, mode, authentication headers and the base URL of later
\* requests are those of the previous credential set.
C24_SwitchModeRollsBack ==
  [][(recorded' # recorded /\ client'.switched = "ConnectionError") =>
       /\ client'.mode = client.mode
       /\ client'.key = client.key
       /\ client'.header = client.header
       /\ client'.url = client.url]_vars

\* the current_price get_position_pnl worked with in the last call
PriceUsed == IF tq.given.set THEN tq.given.v ELSE tq.quote

\* C25: for a symbol with a positive position each effective corporate
\* action is applied exactly once in get_position_pnl: the market value it
\* reports is get_current_position(symbol).quantity * current_price, and
\* the quantity of its corporate_actions_analysis is the quantity of
\* get_current_position.
C25_ActionsAppliedOnce ==
  (tq.op = "get_position_pnl" /\ tq.pnl.kind = "summary") =>
    LET position == get_current_position(history, actions, tq.symbol, today)
    IN /\ tq.pnl.current_value = ToFloat(DecMul(position.quantity, PriceUsed))
       /\ tq.pnl.adjusted_quantity = position.quantity

\* the product of the multipliers of the splits of `acts` with an ex_date
\* after `from` and up to `to`
RECURSIVE SplitFactor(_, _, _)
SplitFactor(acts, from, to) ==
  IF acts = <<>> THEN One
  ELSE IF /\ Head(acts).action_type \in SplitTypes
          /\ from < Head(acts).ex_date /\ Head(acts).ex_date <= to
       THEN DecMul(get_split_multiplier(Head(acts)), SplitFactor(Tail(acts), from, to))
       ELSE SplitFactor(Tail(acts), from, to)

\* the quantity held when each split multiplies the shares held at its
\* ex_date: the shares of a trade are multiplied by the splits after its date
RECURSIVE LotQuantity(_, _, _, _, _)
LotQuantity(trades, acts, quantity, from, day) ==
  IF trades = <<>> THEN DecMul(quantity, SplitFactor(acts, from, day))
  ELSE LET t == Head(trades)
           held == DecMul(quantity, SplitFactor(acts, from, t.date))
       IN LotQuantity(Tail(trades), acts,
                      IF t.type = "buy" \/ held.m > 0
                      THEN DecAdd(held, DecInt(t.quantity)) ELSE held,
                      t.date, day)

\* C26: with buys before and after a split's ex_date (or a full close and
\* a purchase after the ex_date), get_current_position multiplies by the
\* split ratio only the shares held at the ex_date: its quantity is the
\* one that applying each split per buy lot gives, and shares bought on or
\* after the ex_date are not multiplied.
C26_SplitPerLot ==
  (tq.op = "get_current_position" /\ tq.position.exc = "none"
     /\ tq.position.quantity.m > 0) =>
    tq.position.quantity =
      ToFloat(LotQuantity(history[tq.symbol], actions[tq.symbol], Zero, NoDate, today))

\* the prices of the buys of a list of trades
BuyPrices(trades) == { trades[i].price : i \in { j \in 1..Len(trades) : trades[j].type = "buy" } }

\* C27: for any trade log, also one where a sell exceeds the quantity held,
\* whenever get_current_position reports a positive quantity with no
\* corporate action applied, the total cost it reports is not negative and
\* the average cost basis lies between the lowest and the highest buy price
\* of the log.
C27_CostBasisWithinBuyPrices ==
  (/\ tq.op = "get_current_position"
   /\ tq.position.quantity.m > 0
   /\ tq.position.corporate_actions_applied = 0) =>
    /\ tq.position.total_cost.m >= 0
    /\ \E p \in BuyPrices(history[tq.symbol]) : DecLe(p, tq.position.cost_basis)
    /\ \E p \in BuyPrices(history[tq.symbol]) : DecLe(tq.position.cost_basis, p)

\* the orders in which n actions can have been added
Orders(n) == { p \in [1..n -> 1..n] : \A i, j \in 1..n : p[i] = p[j] => i = j }

\* the ledger add_corporate_action builds when the actions of the symbol
\* are added in the order p
AddedInOrder(acts, symbol, p) ==
  [acts EXCEPT ![symbol] = SortByExDate([i \in 1..Len(acts[symbol]) |-> acts[symbol][p[i]]])]

SameAdjustment(x, y) ==
  /\ x.exc = y.exc
  /\ x.adjusted_quantity = y.adjusted_quantity
  /\ x.adjusted_cost_basis = y.adjusted_cost_basis
  /\ x.total_dividends_received = y.total_dividends_received

\* C28: what apply_corporate_actions_to_position returns (adjusted
\* quantity, adjusted cost basis, total dividends) depends only on the set
\* of actions on file for the symbol, not on the order in which
\* add_corporate_action was given them, also when a split and a dividend
\* have the same ex_date.
C28_OrderOfAddingIrrelevant ==
  adj.op = "apply_corporate_actions_to_position" =>
    \A p \in Orders(Len(actions[adj.symbol])) :
      SameAdjustment(adj.position,
        apply_corporate_actions_to_position(AddedInOrder(actions, adj.symbol, p),
          adj.symbol, adj.acquisition_date, adj.quantity, adj.cost_basis,
          adj.as_of_date))

\* C29: every trade that the wrapped bot's execute_trade completes
\* successfully is recorded in the position tracker by exactly one
\* record_trade call (one record more for its symbol, the others as they
\* were), and a call that was skipped, failed or raised records nothing.
C29_CompletedTradeRecordedOnce ==
  [][(BotIdle /\ bot'.op = "execute_trade") =>
       IF bot'.exc = "none" /\ bot'.status = "success"
       THEN /\ Len(history'[bot'.symbol]) = Len(history[bot'.symbol]) + 1
            /\ IsPrefix(history[bot'.symbol], history'[bot'.symbol])
            /\ \A sym \in Symbols \ {bot'.symbol} : history'[sym] = history[sym]
       ELSE history' = history]_vars

\* the step is a call of check_trading_conditions on a scheduler whose
\* trading is disabled
DisabledCheck == SchedIdle /\ ~sched.trading_enabled /\ sched'.op = "check_trading_conditions"

\* trading is re-enabled by nothing but a daily_reset that fetched the
\* account, and a daily_reset whose fetch fails changes neither the
\* switch, the counter nor the baseline
ResetRule ==
  /\ (~sched.trading_enabled /\ sched'.trading_enabled)
       => (sched'.op = "daily_reset" /\ sched'.account.set)
  /\ (SchedIdle /\ sched'.op = "daily_reset" /\ ~sched'.account.set)
       => /\ sched'.trading_enabled = sched.trading_enabled
          /\ sched'.daily_trades_executed = sched.daily_trades_executed
          /\ sched'.last_portfolio_value = sched.last_portfolio_value

\* C30 as stated: once trading is disabled (by the loss limit or by
\* emergency_stop), every later call of check_trading_conditions returns
\* false, also when the portfolio value has recovered, until a daily_reset
\* completes successfully; a daily_reset whose account fetch fails
\* re-enables nothing and resets no counter.
C30_DisabledReturnsFalse ==
  [][/\ DisabledCheck => (sched'.exc = "none" /\ sched'.returned = "False")
     /\ ResetRule]_vars

\* C30 amended: once trading is disabled, every later call of
\* check_trading_conditions returns false, or raises when the market clock
\* request fails, and never returns true, also when the portfolio value has
\* recovered, and trading stays disabled, until a daily_reset completes
\* successfully; a daily_reset whose account fetch fails re-enables
\* nothing and resets no counter.
C30_DisabledNeverReturnsTrue ==
  [][/\ DisabledCheck =>
          /\ sched'.returned # "True"
          /\ ~sched'.trading_enabled
          /\ IF sched'.clock = "fail"
             THEN sched'.exc # "none" /\ sched'.returned = None
             ELSE sched'.exc = "none" /\ sched'.returned = "False"
     /\ ResetRule]_vars

\* a disabled scheduler was asked while the market is open, the trade
\* limit is not reached and the portfolio value is at or above the
\* baseline: it returned false
C30_Witness ==
  /\ sched.op = "check_trading_conditions"
  /\ ~sched.trading_enabled
  /\ sched.clock = "open"
  /\ sched.daily_trades_executed < max_daily_trades
  /\ sched.account.set /\ sched.last_portfolio_value.set
  /\ sched.account.v >= sched.last_portfolio_value.v
  /\ sched.returned = "False"

====
